---------------------------- MODULE Spec2Model ----------------------------
(***************************************************************************)
(* Transaction log applier of the lake storage engine                      *)
(* (be/src/storage/lake/txn_log_applier.cpp).                              *)
(*                                                                         *)
(* One applier is built for (tablet, base metadata, new_version) by        *)
(* new_txn_log_applier; the driver calls init, apply(log)*, finish and     *)
(* then drops the applier.  The model keeps the applier's fields as        *)
(* variables, one action per driver call, and the private member           *)
(* functions as operators on a record `t` that threads the applier's       *)
(* fields, the collaborators' state and the outcome of the calls made to   *)
(* collaborators through one call.                                         *)
(***************************************************************************)
EXTENDS Integers, Sequences, FiniteSets, TLC

VARIABLES
    kind,          \* "PK" | "NONPK": which class new_txn_log_applier built
    cfg,           \* config::enable_primary_key_recover / enable_size_tiered_compaction_strategy
    metadata,      \* _metadata (TabletMetadataPB under construction)
    base_version,  \* PrimaryKeyTxnLogApplier::_base_version
    new_version,   \* _new_version
    max_txn_id,    \* PrimaryKeyTxnLogApplier::_max_txn_id
    builder,       \* MetaFileBuilder _builder: recover flag and appended delvecs
    index_entry,   \* _index_entry != nullptr
    guard,         \* _guard != nullptr
    has_finalized, \* _has_finalized
    env,           \* collaborators: metadata store, index cache, shard lock
    phase,         \* driver position: "new" | "ready" | "failed" | "finished" | "destroyed"
    last,          \* the last driver call: "new" | "init" | "apply" | "finish" | "destroy"
    napplied,      \* number of apply calls made
    pre,           \* applier fields and env before the last driver call
    log,           \* argument of the last apply call
    oracle,        \* the fallible collaborator calls of the last driver call, with their answers
    status,        \* Status returned by the last driver call
    trace,         \* op steps run by the last apply call, in order
    calls,         \* collaborator calls made by the last driver call, in order
    other          \* the fields of a second applier built for the same tablet and versions

vars == <<kind, cfg, metadata, base_version, new_version, max_txn_id, builder,
          index_entry, guard, has_finalized, env, phase, last, napplied, pre, log,
          oracle, status, trace, calls, other>>

-----------------------------------------------------------------------------
(* Bounds of the model *)

\* apply calls per applier
MaxApplies == 2
\* longest input_rowsets list of a compaction op
MaxInputs == 2
\* longest op_writes list of a replication op
MaxWrites == 2
\* largest new_version - base_version
MaxBump == 2
\* largest txn_id
MaxTxnId == 2

\* new_version - base_version of the applier that resumes after a schema change
MaxCheckpointBump == 4

\* apply calls of each of two appliers that run side by side
MaxTwoApplies == 1

Max(x, y) == IF x >= y THEN x ELSE y

Range(s) == {s[i] : i \in 1..Len(s)}

CountOf(s, x) == Cardinality({i \in 1..Len(s) : s[i] = x})

SeqsUpTo(S, n) == UNION {[1..k -> S] : k \in 0..n}

-----------------------------------------------------------------------------
(* Data *)

Rowset(id, segs, rows, delpred) ==
    [id |-> id, segments_size |-> segs, num_rows |-> rows, has_delete_predicate |-> delpred]

NoRowset == Rowset(0, 0, 0, FALSE)

OK == "OK"

\* RecoverFlag of the meta-file builder
RecoverFlags == {"OK", "RECOVER", "RECOVER_WITH_PUBLISH"}

(* What a collaborator call can answer: its Status and, for the calls that  *)
(* are handed the builder, the recover flag they leave on it ("OK": flag    *)
(* left as it was).                                                         *)
Outcome(st, flag) == [st |-> st, flag |-> flag]

DefaultOutcome == Outcome(OK, "OK")

StatusOutcomes == {Outcome(OK, "OK"), Outcome("IOError", "OK")}

PrepareOutcomes == StatusOutcomes \cup {Outcome("IOError", "RECOVER_WITH_PUBLISH")}

PublishOutcomes ==
    StatusOutcomes \cup
    {Outcome(OK, "RECOVER"), Outcome("IOError", "RECOVER"), Outcome("IOError", "RECOVER_WITH_PUBLISH")}

OutcomesOf(call) ==
    CASE call = "prepare_primary_index" -> PrepareOutcomes
      [] call \in {"publish_primary_key_tablet", "publish_primary_compaction"} -> PublishOutcomes
      [] OTHER -> StatusOutcomes

-----------------------------------------------------------------------------
(* The record threaded through one driver call *)

\* Next answer of the collaborators for `call`; answers not listed are OK.
Answer(t) == IF t.orc = <<>> THEN DefaultOutcome ELSE Head(t.orc)

Asked(t, call) ==
    [t EXCEPT !.orc = IF @ = <<>> THEN @ ELSE Tail(@),
              !.asked = Append(@, call),
              !.calls = Append(@, call)]

Called(t, call) == [t EXCEPT !.calls = Append(@, call)]

Returned(t, st) == [t EXCEPT !.st = st]

\* The applier's fields and the collaborators' state, as recorded in `pre` and `trace`
Fields(t) ==
    [metadata |-> t.metadata, base_version |-> t.base_version, max_txn_id |-> t.max_txn_id,
     builder |-> t.builder, index_entry |-> t.index_entry, guard |-> t.guard,
     has_finalized |-> t.has_finalized, env |-> t.env]

-----------------------------------------------------------------------------
(* apply_alter_meta_log (anonymous namespace, shared by both appliers) *)

alter_one(t, alter_meta) ==
    LET t1 == IF alter_meta.has_enable_persistent_index
              THEN LET a == [t EXCEPT !.metadata.enable_persistent_index =
                                          alter_meta.enable_persistent_index,
                                      !.env.persistent_index = alter_meta.enable_persistent_index,
                                      \* try_remove_by_key: removes the entry unless it is pinned
                                      !.env.cached = IF t.env.pins = 0 THEN FALSE ELSE @,
                                      !.env.loaded = IF t.env.pins = 0 THEN FALSE ELSE @]
                   IN Called(Called(a, "set_enable_persistent_index"), "try_remove_by_key")
              ELSE t
    IN IF alter_meta.has_tablet_schema
       THEN [t1 EXCEPT !.metadata.schema = alter_meta.tablet_schema]
       ELSE t1

RECURSIVE alter_loop(_, _, _)
alter_loop(t, infos, i) ==
    IF i > Len(infos) THEN t ELSE alter_loop(alter_one(t, infos[i]), infos, i + 1)

apply_alter_meta_log(t, op_alter_metas) ==
    Returned(alter_loop(t, op_alter_metas.metadata_update_infos, 1), OK)

-----------------------------------------------------------------------------
(* NonPrimaryKeyTxnLogApplier *)

\* NonPk_apply_write_log without the set_id
NonPk_apply_write_log_keep_id(t, op_write) ==
    IF op_write.has_rowset
       /\ (op_write.rowset.num_rows > 0 \/ op_write.rowset.has_delete_predicate)
    THEN LET rowset == op_write.rowset
         IN Returned([t EXCEPT !.metadata.rowsets = Append(@, rowset),
                               !.metadata.next_rowset_id = @ + Max(1, rowset.segments_size)],
                     OK)
    ELSE Returned(t, OK)

\* TEST_ERROR_POINT (lines 331, 432) injects errors in test builds only and is left out
NonPk_apply_write_log(t, op_write) ==
    IF op_write.has_rowset
       /\ (op_write.rowset.num_rows > 0 \/ op_write.rowset.has_delete_predicate)
    THEN LET rowset == [op_write.rowset EXCEPT !.id = t.metadata.next_rowset_id]
         IN Returned([t EXCEPT !.metadata.rowsets = Append(@, rowset),
                               !.metadata.next_rowset_id = @ + Max(1, rowset.segments_size)],
                     OK)
    ELSE Returned(t, OK)

\* std::find_if(begin + from - 1, end, Finder{id}): 1-based position, Len + 1 for end()
RECURSIVE find_if(_, _, _)
find_if(rowsets, from, id) ==
    IF from > Len(rowsets) THEN Len(rowsets) + 1
    ELSE IF rowsets[from].id = id THEN from
    ELSE find_if(rowsets, from + 1, id)

\* check_adjacent with the adjacency test left out: a later input may sit anywhere behind
RECURSIVE check_adjacent_any_gap(_, _, _, _)
check_adjacent_any_gap(rowsets, inputs, i, pre_input_pos) ==
    IF i > Len(inputs) THEN [st |-> OK, pos |-> pre_input_pos]
    ELSE LET it == find_if(rowsets, pre_input_pos + 1, inputs[i])
         IN IF it = Len(rowsets) + 1 THEN [st |-> "InternalError", pos |-> pre_input_pos]
            ELSE check_adjacent_any_gap(rowsets, inputs, i + 1, it)

\* The safety-check loop over input_rowsets(1..): the last input's position, or the error
RECURSIVE check_adjacent(_, _, _, _)
check_adjacent(rowsets, inputs, i, pre_input_pos) ==
    IF i > Len(inputs) THEN [st |-> OK, pos |-> pre_input_pos]
    ELSE LET it == find_if(rowsets, pre_input_pos + 1, inputs[i])
         IN IF it = Len(rowsets) + 1 THEN [st |-> "InternalError", pos |-> pre_input_pos]
            ELSE IF it # pre_input_pos + 1 THEN [st |-> "InternalError", pos |-> pre_input_pos]
            ELSE check_adjacent(rowsets, inputs, i + 1, it)

\* HasOutput with the num_rows test left out
HasOutput_any_rows(op_compaction) == op_compaction.has_output_rowset

HasOutput(op_compaction) ==
    op_compaction.has_output_rowset /\ op_compaction.output_rowset.num_rows > 0

\* new_cumulative_point without the base-compaction branch
new_cumulative_point_no_base(t, op_compaction, first_idx) ==
    IF t.cfg.enable_size_tiered_compaction_strategy THEN 0
    ELSE LET cp == t.metadata.cumulative_point
             base == IF first_idx >= cp THEN first_idx ELSE 0
         IN IF HasOutput(op_compaction) THEN base + 1 ELSE base

\* Lines 394-413: the new cumulative point, before the bound check
new_cumulative_point(t, op_compaction, first_idx) ==
    IF t.cfg.enable_size_tiered_compaction_strategy THEN 0
    ELSE LET cp == t.metadata.cumulative_point
             k == Len(op_compaction.input_rowsets)
             base == IF first_idx >= cp THEN first_idx
                     ELSE IF cp >= k THEN cp - k
                     ELSE 0
         IN IF HasOutput(op_compaction) THEN base + 1 ELSE base

\* NonPk_apply_compaction_log refusing a new cumulative point equal to the rowset size
NonPk_apply_compaction_log_strict_bound(t, op_compaction) ==
    LET rowsets == t.metadata.rowsets
        inputs == op_compaction.input_rowsets
    IN IF inputs = <<>> THEN Returned([t EXCEPT !.dcheck = @ /\ ~HasOutput(op_compaction)], OK)
       ELSE LET first_input_pos == find_if(rowsets, 1, inputs[1])
            IN IF first_input_pos = Len(rowsets) + 1 THEN Returned(t, "InternalError")
               ELSE LET chk == check_adjacent(rowsets, inputs, 2, first_input_pos)
                    IN IF chk.st # OK THEN Returned(t, chk.st)
                       ELSE
    LET end_input_pos == chk.pos + 1
        first_idx == first_input_pos - 1
        moved == SubSeq(rowsets, first_input_pos, end_input_pos - 1)
        output_rowset == [op_compaction.output_rowset EXCEPT !.id = t.metadata.next_rowset_id]
        kept == IF HasOutput(op_compaction) THEN <<output_rowset>> ELSE <<>>
        new_rowsets == SubSeq(rowsets, 1, first_input_pos - 1) \o kept
                       \o SubSeq(rowsets, end_input_pos, Len(rowsets))
        t1 == [t EXCEPT !.metadata.compaction_inputs = @ \o moved,
                        !.metadata.rowsets = new_rowsets,
                        !.metadata.next_rowset_id =
                            IF HasOutput(op_compaction)
                            THEN @ + output_rowset.segments_size ELSE @]
        new_cp == new_cumulative_point(t, op_compaction, first_idx)
    IN IF ~t.cfg.enable_size_tiered_compaction_strategy /\ new_cp >= Len(new_rowsets)
       THEN Returned(t1, "InternalError")
       ELSE Returned([t1 EXCEPT !.metadata.cumulative_point = new_cp], OK)

\* Lines 341-429
NonPk_apply_compaction_log(t, op_compaction) ==
    LET rowsets == t.metadata.rowsets
        inputs == op_compaction.input_rowsets
    IN IF inputs = <<>> THEN Returned([t EXCEPT !.dcheck = @ /\ ~HasOutput(op_compaction)], OK)
       ELSE LET first_input_pos == find_if(rowsets, 1, inputs[1])
            IN IF first_input_pos = Len(rowsets) + 1 THEN Returned(t, "InternalError")
               ELSE LET chk == check_adjacent(rowsets, inputs, 2, first_input_pos)
                    IN IF chk.st # OK THEN Returned(t, chk.st)
                       ELSE
    LET end_input_pos == chk.pos + 1
        first_idx == first_input_pos - 1
        moved == SubSeq(rowsets, first_input_pos, end_input_pos - 1)
        output_rowset == [op_compaction.output_rowset EXCEPT !.id = t.metadata.next_rowset_id]
        kept == IF HasOutput(op_compaction) THEN <<output_rowset>> ELSE <<>>
        new_rowsets == SubSeq(rowsets, 1, first_input_pos - 1) \o kept
                       \o SubSeq(rowsets, end_input_pos, Len(rowsets))
        t1 == [t EXCEPT !.metadata.compaction_inputs = @ \o moved,
                        !.metadata.rowsets = new_rowsets,
                        !.metadata.next_rowset_id =
                            IF HasOutput(op_compaction)
                            THEN @ + output_rowset.segments_size ELSE @]
        new_cp == new_cumulative_point(t, op_compaction, first_idx)
    IN IF ~t.cfg.enable_size_tiered_compaction_strategy /\ new_cp > Len(new_rowsets)
       THEN Returned(t1, "InternalError")
       ELSE Returned([t1 EXCEPT !.metadata.cumulative_point = new_cp], OK)

\* The loop shared by both apply_schema_change_log: append keeping the id, set next_rowset_id
RECURSIVE add_schema_change_rowsets(_, _, _)
add_schema_change_rowsets(t, rowsets, i) ==
    IF i > Len(rowsets) THEN t
    ELSE add_schema_change_rowsets(
             [t EXCEPT !.metadata.rowsets = Append(@, rowsets[i]),
                       !.metadata.next_rowset_id =
                           rowsets[i].id + Max(1, rowsets[i].segments_size)],
             rowsets, i + 1)

NonPk_apply_schema_change_log(t, op_schema_change) ==
    LET t0 == [t EXCEPT !.dcheck = @ /\ Len(t.metadata.rowsets) = 0
                                     /\ ~op_schema_change.has_delvec_meta]
    IN Returned(add_schema_change_rowsets(t0, op_schema_change.rowsets, 1), OK)

RECURSIVE NonPk_apply_writes(_, _, _)
NonPk_apply_writes(t, op_writes, i) ==
    IF i > Len(op_writes) THEN Returned(t, OK)
    ELSE LET r == NonPk_apply_write_log(t, op_writes[i])
         IN IF r.st # OK THEN r ELSE NonPk_apply_writes(r, op_writes, i + 1)

set_source_schema(t, op_replication) ==
    IF op_replication.has_source_schema
    THEN [t EXCEPT !.metadata.source_schema = op_replication.source_schema]
    ELSE t

\* NonPk_check_txn_meta with the snapshot-version check left out
NonPk_check_txn_meta_state_only(t, txn_meta) ==
    IF txn_meta.txn_state # "TXN_REPLICATED" THEN "Corruption" ELSE OK

\* Lines 445-456: the two checks of the op's txn_meta, as the status they give
NonPk_check_txn_meta(t, txn_meta) ==
    IF txn_meta.txn_state # "TXN_REPLICATED" THEN "Corruption"
    ELSE IF txn_meta.snapshot_version # t.new_version THEN "Corruption"
    ELSE OK

\* NonPk_apply_replication_log with the cumulative point kept by a full snapshot
NonPk_apply_replication_log_keep_point(t, op_replication) ==
    IF NonPk_check_txn_meta(t, op_replication.txn_meta) # OK
    THEN Returned(t, NonPk_check_txn_meta(t, op_replication.txn_meta))
    ELSE IF op_replication.txn_meta.incremental_snapshot
    THEN LET r == NonPk_apply_writes(t, op_replication.op_writes, 1)
         IN IF r.st # OK THEN r ELSE Returned(set_source_schema(r, op_replication), OK)
    ELSE LET old_rowsets == t.metadata.rowsets
             r == NonPk_apply_writes([t EXCEPT !.metadata.rowsets = <<>>],
                                     op_replication.op_writes, 1)
         IN IF r.st # OK THEN r
            ELSE Returned(set_source_schema(
                              [r EXCEPT !.metadata.compaction_inputs = old_rowsets],
                              op_replication),
                          OK)

\* NonPk_apply_replication_log with the old rowsets put after the compaction inputs already there
NonPk_apply_replication_log_keep_inputs(t, op_replication) ==
    IF NonPk_check_txn_meta(t, op_replication.txn_meta) # OK
    THEN Returned(t, NonPk_check_txn_meta(t, op_replication.txn_meta))
    ELSE IF op_replication.txn_meta.incremental_snapshot
    THEN LET r == NonPk_apply_writes(t, op_replication.op_writes, 1)
         IN IF r.st # OK THEN r ELSE Returned(set_source_schema(r, op_replication), OK)
    ELSE LET old_rowsets == t.metadata.rowsets
             r == NonPk_apply_writes([t EXCEPT !.metadata.rowsets = <<>>],
                                     op_replication.op_writes, 1)
         IN IF r.st # OK THEN r
            ELSE Returned(set_source_schema(
                              [r EXCEPT !.metadata.cumulative_point = 0,
                                        !.metadata.compaction_inputs = @ \o old_rowsets],
                              op_replication),
                          OK)

\* Lines 444-486
NonPk_apply_replication_log(t, op_replication) ==
    IF NonPk_check_txn_meta(t, op_replication.txn_meta) # OK
    THEN Returned(t, NonPk_check_txn_meta(t, op_replication.txn_meta))
    ELSE IF op_replication.txn_meta.incremental_snapshot
    THEN LET r == NonPk_apply_writes(t, op_replication.op_writes, 1)
         IN IF r.st # OK THEN r ELSE Returned(set_source_schema(r, op_replication), OK)
    ELSE LET old_rowsets == t.metadata.rowsets
             r == NonPk_apply_writes([t EXCEPT !.metadata.rowsets = <<>>],
                                     op_replication.op_writes, 1)
         IN IF r.st # OK THEN r
            ELSE Returned(set_source_schema(
                              [r EXCEPT !.metadata.cumulative_point = 0,
                                        !.metadata.compaction_inputs = old_rowsets],
                              op_replication),
                          OK)

\* Step with the early return left out
Step_ignore_error(t, present, name, r, returns) ==
    IF ~present THEN t
    ELSE [r EXCEPT !.trace = Append(@, [op |-> name, st |-> r.st,
                                        before |-> Fields(t), after |-> Fields(r)]),
                   !.done = returns \/ r.st # OK]

\* One `if (log.has_op_x()) { RETURN_IF_ERROR(step) }` of apply, `r` being what the step
\* makes of `t`; `returns`: the statement is `return step` instead
Step(t, present, name, r, returns) ==
    IF t.done \/ ~present THEN t
    ELSE [r EXCEPT !.trace = Append(@, [op |-> name, st |-> r.st,
                                        before |-> Fields(t), after |-> Fields(r)]),
                   !.done = returns \/ r.st # OK]

\* The final `return Status::OK()` of apply, reached unless a step has returned
apply_end(t) == IF t.done THEN t ELSE Returned(t, OK)

\* Lines 306-308
NonPk_op_write(t, l) ==
    Step(t, l.has_op_write, "op_write", NonPk_apply_write_log(t, l.op_write), FALSE)

\* Lines 309-311
NonPk_op_compaction(t, l) ==
    Step(t, l.has_op_compaction, "op_compaction",
         NonPk_apply_compaction_log(t, l.op_compaction), FALSE)

\* Lines 312-314
NonPk_op_schema_change(t, l) ==
    Step(t, l.has_op_schema_change, "op_schema_change",
         NonPk_apply_schema_change_log(t, l.op_schema_change), FALSE)

\* Lines 315-317
NonPk_op_replication(t, l) ==
    Step(t, l.has_op_replication, "op_replication",
         NonPk_apply_replication_log(t, l.op_replication), FALSE)

\* Lines 318-320
NonPk_op_alter_metadata(t, l) ==
    Step(t, l.has_op_alter_metadata, "op_alter_metadata",
         apply_alter_meta_log(t, l.op_alter_metadata), TRUE)

\* The statements of apply, first to last
NonPk_apply(t, l) ==
    apply_end(
        NonPk_op_alter_metadata(
            NonPk_op_replication(
                NonPk_op_schema_change(
                    NonPk_op_compaction(
                        NonPk_op_write(t, l), l), l), l), l))

\* NonPk_finish without the set_version
NonPk_finish_keep_version(t) ==
    LET o == Answer(t)
        t2 == Asked(t, "put_metadata")
    IN IF o.st # OK THEN Returned(t2, o.st)
       ELSE Returned([t2 EXCEPT !.env.store = @ \cup {t.metadata}], OK)

NonPk_finish(t) ==
    LET t1 == [t EXCEPT !.metadata.version = t.new_version]
        o == Answer(t1)
        t2 == Asked(t1, "put_metadata")
    IN IF o.st # OK THEN Returned(t2, o.st)
       ELSE Returned([t2 EXCEPT !.env.store = @ \cup {t1.metadata}], OK)

-----------------------------------------------------------------------------
(* Collaborators of the primary-key applier (update manager, index cache,   *)
(* meta-file builder): their effect on the state the applier shares with    *)
(* them.                                                                    *)

\* A publish call has applied the op to the metadata when it succeeded, or when it asks
\* for a recover without re-publish
Applied(o) == (o.st = OK /\ o.flag = "OK") \/ o.flag = "RECOVER"

SetFlag(t, o) == IF o.flag # "OK" THEN [t EXCEPT !.builder.recover_flag = o.flag] ELSE t

\* MetaFileBuilder's handling of an op_write inside publish_primary_key_tablet
builder_apply_opwrite(t, op_write) ==
    IF op_write.has_rowset
       /\ (op_write.rowset.num_rows > 0 \/ op_write.rowset.has_delete_predicate)
    THEN [t EXCEPT !.metadata.rowsets =
                       Append(@, [op_write.rowset EXCEPT !.id = t.metadata.next_rowset_id]),
                   !.metadata.next_rowset_id = @ + Max(1, op_write.rowset.segments_size)]
    ELSE t

\* MetaFileBuilder's handling of an op_compaction inside publish_primary_compaction:
\* the inputs leave the rowset list for compaction_inputs, the output takes the slot of
\* the first of them
builder_apply_opcompaction(t, op_compaction) ==
    LET rowsets == t.metadata.rowsets
        ids == Range(op_compaction.input_rowsets)
        at == {i \in 1..Len(rowsets) : rowsets[i].id \in ids}
        first == IF at = {} THEN Len(rowsets) + 1
                 ELSE CHOOSE i \in at : \A j \in at : i <= j
        out == [op_compaction.output_rowset EXCEPT !.id = t.metadata.next_rowset_id]
    IN [t EXCEPT !.metadata.rowsets =
                     SubSeq(rowsets, 1, first - 1)
                     \o (IF HasOutput(op_compaction) THEN <<out>> ELSE <<>>)
                     \o SelectSeq(SubSeq(rowsets, first, Len(rowsets)),
                                  LAMBDA r : r.id \notin ids),
                 !.metadata.compaction_inputs =
                     @ \o SelectSeq(rowsets, LAMBDA r : r.id \in ids),
                 !.metadata.next_rowset_id =
                     IF HasOutput(op_compaction) THEN @ + Max(1, out.segments_size) ELSE @]

publish_primary_key_tablet(t, op_write) ==
    LET o == Answer(t)
        t1 == SetFlag(Asked(t, "publish_primary_key_tablet"), o)
    IN Returned(IF Applied(o) THEN builder_apply_opwrite(t1, op_write) ELSE t1, o.st)

publish_primary_compaction(t, op_compaction) ==
    LET o == Answer(t)
        t1 == SetFlag(Asked(t, "publish_primary_compaction"), o)
    IN Returned(IF Applied(o) THEN builder_apply_opcompaction(t1, op_compaction) ELSE t1, o.st)

\* UpdateManager::prepare_primary_index: pins the tablet's cache entry and hands out the guard
prepare_primary_index(t) ==
    LET o == Answer(t)
        t1 == SetFlag(Asked(t, "prepare_primary_index"), o)
    IN IF o.st # OK THEN Returned(t1, o.st)
       ELSE Returned([t1 EXCEPT !.index_entry = TRUE, !.guard = TRUE,
                                !.env.pins = @ + 1, !.env.cached = TRUE,
                                !.env.loaded = TRUE],
                     OK)

\* UpdateManager::release_primary_index_cache(entry): nothing for a null entry
release_primary_index_cache(t) ==
    LET t1 == Called(t, "release_primary_index_cache")
    IN IF t.index_entry THEN [t1 EXCEPT !.env.pins = @ - 1] ELSE t1

\* UpdateManager::remove_primary_index_cache(entry)
remove_primary_index_cache(t) ==
    LET t1 == Called(t, "remove_primary_index_cache")
    IN IF t.index_entry THEN [t1 EXCEPT !.env.pins = @ - 1, !.env.cached = FALSE] ELSE t1

lock_shard_pk_index_shard(t) ==
    [Called(t, "lock_shard_pk_index_shard") EXCEPT
        !.env.lock = @ + 1, !.env.relocked = @ \/ t.env.lock > 0]

unlock_shard_pk_index_shard(t) ==
    [Called(t, "unlock_shard_pk_index_shard") EXCEPT !.env.lock = @ - 1]

-----------------------------------------------------------------------------
(* PrimaryKeyTxnLogApplier *)

\* Pk_apply_write_log with the empty-write return left out
Pk_apply_write_log_no_skip(t, op_write) ==
    LET t1 == lock_shard_pk_index_shard(t)
        t2 == IF ~t1.index_entry THEN prepare_primary_index(t1) ELSE Returned(t1, OK)
        t3 == IF t2.st # OK THEN t2 ELSE publish_primary_key_tablet(t2, op_write)
    IN unlock_shard_pk_index_shard(t3)

\* Pk_apply_write_log that unlocks the shard at its last return only
Pk_apply_write_log_leak_lock(t, op_write) ==
    LET t1 == lock_shard_pk_index_shard(t)
        t2 == IF ~t1.index_entry THEN prepare_primary_index(t1) ELSE Returned(t1, OK)
    IN IF t2.st # OK THEN t2
       ELSE IF op_write.dels_size = 0 /\ op_write.rowset.num_rows = 0
               /\ ~op_write.rowset.has_delete_predicate
       THEN Returned(t2, OK)
       ELSE unlock_shard_pk_index_shard(publish_primary_key_tablet(t2, op_write))

Pk_apply_write_log(t, op_write) ==
    LET t1 == lock_shard_pk_index_shard(t)
        t2 == IF ~t1.index_entry THEN prepare_primary_index(t1) ELSE Returned(t1, OK)
        t3 == IF t2.st # OK THEN t2
              ELSE IF op_write.dels_size = 0 /\ op_write.rowset.num_rows = 0
                      /\ ~op_write.rowset.has_delete_predicate
              THEN Returned(t2, OK)
              ELSE publish_primary_key_tablet(t2, op_write)
    IN unlock_shard_pk_index_shard(t3)

Pk_apply_compaction_log(t, op_compaction) ==
    LET t1 == lock_shard_pk_index_shard(t)
        t2 == IF ~t1.index_entry THEN prepare_primary_index(t1) ELSE Returned(t1, OK)
        t3 == IF t2.st # OK THEN t2
              ELSE IF op_compaction.input_rowsets = <<>>
              THEN Returned([t2 EXCEPT !.dcheck = @ /\ ~HasOutput(op_compaction)], OK)
              ELSE publish_primary_compaction(t2, op_compaction)
    IN unlock_shard_pk_index_shard(t3)

need_recover(t) == t.builder.recover_flag # "OK"

\* need_re_publish answering yes to any recover request
need_re_publish_any_flag(t) == t.builder.recover_flag # "OK"

need_re_publish(t) == t.builder.recover_flag = "RECOVER_WITH_PUBLISH"

\* The std::function handed to check_and_recover: the lambdas of lines 97 and 101
PublishFunc(fn, op) == [fn |-> fn, op |-> op]

publish_func(t, f) ==
    IF f.fn = "apply_write_log" THEN Pk_apply_write_log(t, f.op)
    ELSE Pk_apply_compaction_log(t, f.op)

\* recover_if_needed with _index_entry kept after the entry was released
recover_if_needed_keep_entry(ret, f) ==
    IF ret.cfg.enable_primary_key_recover /\ need_recover(ret)
    THEN LET t1 == release_primary_index_cache(ret)
             o == Answer(t1)
             t2 == Asked(t1, "recover")
         IN IF o.st # OK THEN Returned(t2, o.st)
            ELSE IF need_re_publish(t2)
            THEN publish_func([t2 EXCEPT !.builder.recover_flag = "OK"], f)
            ELSE Returned([t2 EXCEPT !.builder.recover_flag = "OK"], OK)
    ELSE ret

\* Lines 135-158: what check_and_recover does with `ret`, the outcome of publish_func()
recover_if_needed(ret, f) ==
    IF ret.cfg.enable_primary_key_recover /\ need_recover(ret)
    THEN LET t1 == [release_primary_index_cache(ret) EXCEPT !.index_entry = FALSE]
             o == Answer(t1)
             t2 == Asked(t1, "recover")
         IN IF o.st # OK THEN Returned(t2, o.st)
            ELSE IF need_re_publish(t2)
            THEN publish_func([t2 EXCEPT !.builder.recover_flag = "OK"], f)
            ELSE Returned([t2 EXCEPT !.builder.recover_flag = "OK"], OK)
    ELSE ret

check_and_recover(t, f) == recover_if_needed(publish_func(t, f), f)

\* Pk_apply_schema_change_log saving the metadata also when no other log follows
Pk_apply_schema_change_log_always_checkpoint(t, op_schema_change) ==
    LET t0 == [t EXCEPT !.dcheck = @ /\ t.base_version = 1 /\ Len(t.metadata.rowsets) = 0
                                     /\ (op_schema_change.has_delvec_meta
                                         => op_schema_change.linked_segment)]
        t1 == add_schema_change_rowsets(t0, op_schema_change.rowsets, 1)
        t2 == IF op_schema_change.has_delvec_meta
              THEN [t1 EXCEPT !.metadata.delvec_meta = op_schema_change.delvec_meta]
              ELSE t1
    IN IF op_schema_change.alter_version < t.new_version
       THEN LET t3 == [t2 EXCEPT !.base_version = op_schema_change.alter_version]
                base_meta == [t3.metadata EXCEPT !.version = t3.base_version]
                o == Answer(t3)
                t4 == Asked(t3, "put_metadata")
            IN IF o.st # OK THEN Returned(t4, o.st)
               ELSE Returned([t4 EXCEPT !.env.store = @ \cup {base_meta}], OK)
       ELSE Returned(t2, OK)

\* Pk_apply_schema_change_log saving the metadata under the version it already carries
Pk_apply_schema_change_log_unversioned(t, op_schema_change) ==
    LET t0 == [t EXCEPT !.dcheck = @ /\ t.base_version = 1 /\ Len(t.metadata.rowsets) = 0
                                     /\ (op_schema_change.has_delvec_meta
                                         => op_schema_change.linked_segment)]
        t1 == add_schema_change_rowsets(t0, op_schema_change.rowsets, 1)
        t2 == IF op_schema_change.has_delvec_meta
              THEN [t1 EXCEPT !.metadata.delvec_meta = op_schema_change.delvec_meta]
              ELSE t1
    IN IF op_schema_change.alter_version + 1 < t.new_version
       THEN LET t3 == [t2 EXCEPT !.base_version = op_schema_change.alter_version]
                base_meta == t3.metadata
                o == Answer(t3)
                t4 == Asked(t3, "put_metadata")
            IN IF o.st # OK THEN Returned(t4, o.st)
               ELSE Returned([t4 EXCEPT !.env.store = @ \cup {base_meta}], OK)
       ELSE Returned(t2, OK)

\* Pk_apply_schema_change_log setting the version on the applier's metadata, not on a copy
Pk_apply_schema_change_log_reversioned(t, op_schema_change) ==
    LET t0 == [t EXCEPT !.dcheck = @ /\ t.base_version = 1 /\ Len(t.metadata.rowsets) = 0
                                     /\ (op_schema_change.has_delvec_meta
                                         => op_schema_change.linked_segment)]
        t1 == add_schema_change_rowsets(t0, op_schema_change.rowsets, 1)
        t2 == IF op_schema_change.has_delvec_meta
              THEN [t1 EXCEPT !.metadata.delvec_meta = op_schema_change.delvec_meta]
              ELSE t1
    IN IF op_schema_change.alter_version + 1 < t.new_version
       THEN LET t3 == [t2 EXCEPT !.base_version = op_schema_change.alter_version,
                                 !.metadata.version = op_schema_change.alter_version]
                base_meta == [t3.metadata EXCEPT !.version = t3.base_version]
                o == Answer(t3)
                t4 == Asked(t3, "put_metadata")
            IN IF o.st # OK THEN Returned(t4, o.st)
               ELSE Returned([t4 EXCEPT !.env.store = @ \cup {base_meta}], OK)
       ELSE Returned(t2, OK)

Pk_apply_schema_change_log(t, op_schema_change) ==
    LET t0 == [t EXCEPT !.dcheck = @ /\ t.base_version = 1 /\ Len(t.metadata.rowsets) = 0
                                     /\ (op_schema_change.has_delvec_meta
                                         => op_schema_change.linked_segment)]
        t1 == add_schema_change_rowsets(t0, op_schema_change.rowsets, 1)
        t2 == IF op_schema_change.has_delvec_meta
              THEN [t1 EXCEPT !.metadata.delvec_meta = op_schema_change.delvec_meta]
              ELSE t1
    IN IF op_schema_change.alter_version + 1 < t.new_version
       THEN LET t3 == [t2 EXCEPT !.base_version = op_schema_change.alter_version]
                base_meta == [t3.metadata EXCEPT !.version = t3.base_version]
                o == Answer(t3)
                t4 == Asked(t3, "put_metadata")
            IN IF o.st # OK THEN Returned(t4, o.st)
               ELSE Returned([t4 EXCEPT !.env.store = @ \cup {base_meta}], OK)
       ELSE Returned(t2, OK)

RECURSIVE Pk_apply_writes(_, _, _)
Pk_apply_writes(t, op_writes, i) ==
    IF i > Len(op_writes) THEN Returned(t, OK)
    ELSE LET r == Pk_apply_write_log(t, op_writes[i])
         IN IF r.st # OK THEN r ELSE Pk_apply_writes(r, op_writes, i + 1)

\* rebase_rowsets with the ids moved up by the running new_next_rowset_id
RECURSIVE rebase_rowsets_running(_, _, _, _)
rebase_rowsets_running(t, op_writes, i, new_next_rowset_id) ==
    IF i > Len(op_writes) THEN [t |-> t, new_next_rowset_id |-> new_next_rowset_id]
    ELSE LET new_rowset_id == op_writes[i].rowset.id + new_next_rowset_id
             rowset == [op_writes[i].rowset EXCEPT !.id = new_rowset_id]
         IN rebase_rowsets_running([t EXCEPT !.metadata.rowsets = Append(@, rowset)],
                                   op_writes, i + 1,
                                   Max(new_next_rowset_id,
                                       new_rowset_id + Max(1, rowset.segments_size)))

\* Lines 255-262: the replicated rowsets, ids moved up by next_rowset_id
RECURSIVE rebase_rowsets(_, _, _, _)
rebase_rowsets(t, op_writes, i, new_next_rowset_id) ==
    IF i > Len(op_writes) THEN [t |-> t, new_next_rowset_id |-> new_next_rowset_id]
    ELSE LET new_rowset_id == op_writes[i].rowset.id + t.metadata.next_rowset_id
             rowset == [op_writes[i].rowset EXCEPT !.id = new_rowset_id]
         IN rebase_rowsets([t EXCEPT !.metadata.rowsets = Append(@, rowset)], op_writes, i + 1,
                           Max(new_next_rowset_id,
                               new_rowset_id + Max(1, rowset.segments_size)))

\* Lines 264-268: load and append the delete vectors; the map is walked in key order
RECURSIVE append_delvecs(_, _)
append_delvecs(t, segment_ids) ==
    IF segment_ids = {} THEN Returned(t, OK)
    ELSE LET segment_id == CHOOSE x \in segment_ids : \A y \in segment_ids : x <= y
             o == Answer(t)
             t1 == Asked(t, "delvec.load")
         IN IF o.st # OK THEN Returned(t1, o.st)
            ELSE append_delvecs(
                     [Called(t1, "append_delvec") EXCEPT
                         !.builder.delvecs = @ \cup {segment_id + t.metadata.next_rowset_id}],
                     segment_ids \ {segment_id})

\* Lines 226-237: the two checks of the op's txn_meta, as the status they give
Pk_check_txn_meta(t, txn_meta) ==
    IF txn_meta.txn_state # "TXN_REPLICATED" THEN "Corruption"
    ELSE IF txn_meta.snapshot_version # t.new_version THEN "Corruption"
    ELSE OK

\* Pk_apply_replication_log with next_rowset_id set before the delete vectors are appended
Pk_apply_replication_log_early_id(t, op_replication) ==
    IF Pk_check_txn_meta(t, op_replication.txn_meta) # OK
    THEN Returned(t, Pk_check_txn_meta(t, op_replication.txn_meta))
    ELSE IF op_replication.txn_meta.incremental_snapshot
    THEN LET t0 == [t EXCEPT !.dcheck = @ /\ t.new_version - t.base_version
                                               = Len(op_replication.op_writes)]
             r == Pk_apply_writes(t0, op_replication.op_writes, 1)
         IN IF r.st # OK THEN r ELSE Returned(set_source_schema(r, op_replication), OK)
    ELSE LET old_rowsets == t.metadata.rowsets
             t1 == [t EXCEPT !.metadata.rowsets = <<>>, !.metadata.delvec_meta = "cleared"]
             rb == rebase_rowsets(t1, op_replication.op_writes, 1, t1.metadata.next_rowset_id)
             t2 == append_delvecs([rb.t EXCEPT !.metadata.next_rowset_id = rb.new_next_rowset_id],
                                  op_replication.delvecs)
         IN IF t2.st # OK THEN t2
            ELSE LET t3 == [t2 EXCEPT !.metadata.cumulative_point = 0,
                                      !.metadata.compaction_inputs = old_rowsets,
                                      !.env.loaded = FALSE]
                 IN Returned(set_source_schema(Called(t3, "unload_primary_index"),
                                               op_replication),
                             OK)

\* Pk_apply_replication_log giving the applier's index entry back when it asks for the unload
Pk_apply_replication_log_drop_pin(t, op_replication) ==
    IF Pk_check_txn_meta(t, op_replication.txn_meta) # OK
    THEN Returned(t, Pk_check_txn_meta(t, op_replication.txn_meta))
    ELSE IF op_replication.txn_meta.incremental_snapshot
    THEN LET t0 == [t EXCEPT !.dcheck = @ /\ t.new_version - t.base_version
                                               = Len(op_replication.op_writes)]
             r == Pk_apply_writes(t0, op_replication.op_writes, 1)
         IN IF r.st # OK THEN r ELSE Returned(set_source_schema(r, op_replication), OK)
    ELSE LET old_rowsets == t.metadata.rowsets
             t1 == [t EXCEPT !.metadata.rowsets = <<>>, !.metadata.delvec_meta = "cleared"]
             rb == rebase_rowsets(t1, op_replication.op_writes, 1, t1.metadata.next_rowset_id)
             t2 == append_delvecs(rb.t, op_replication.delvecs)
         IN IF t2.st # OK THEN t2
            ELSE LET t3 == [t2 EXCEPT !.metadata.next_rowset_id = rb.new_next_rowset_id,
                                      !.metadata.cumulative_point = 0,
                                      !.metadata.compaction_inputs = old_rowsets,
                                      !.env.loaded = FALSE]
                     t4 == [release_primary_index_cache(Called(t3, "unload_primary_index"))
                                EXCEPT !.index_entry = FALSE]
                 IN Returned(set_source_schema(t4, op_replication), OK)

\* Lines 225-286
Pk_apply_replication_log(t, op_replication) ==
    IF Pk_check_txn_meta(t, op_replication.txn_meta) # OK
    THEN Returned(t, Pk_check_txn_meta(t, op_replication.txn_meta))
    ELSE IF op_replication.txn_meta.incremental_snapshot
    THEN LET t0 == [t EXCEPT !.dcheck = @ /\ t.new_version - t.base_version
                                               = Len(op_replication.op_writes)]
             r == Pk_apply_writes(t0, op_replication.op_writes, 1)
         IN IF r.st # OK THEN r ELSE Returned(set_source_schema(r, op_replication), OK)
    ELSE LET old_rowsets == t.metadata.rowsets
             t1 == [t EXCEPT !.metadata.rowsets = <<>>, !.metadata.delvec_meta = "cleared"]
             rb == rebase_rowsets(t1, op_replication.op_writes, 1, t1.metadata.next_rowset_id)
             t2 == append_delvecs(rb.t, op_replication.delvecs)
         IN IF t2.st # OK THEN t2
            ELSE LET t3 == [t2 EXCEPT !.metadata.next_rowset_id = rb.new_next_rowset_id,
                                      !.metadata.cumulative_point = 0,
                                      !.metadata.compaction_inputs = old_rowsets,
                                      \* UpdateManager::unload_primary_index(tablet_id)
                                      !.env.loaded = FALSE]
                 IN Returned(set_source_schema(Called(t3, "unload_primary_index"),
                                               op_replication),
                             OK)

\* Line 95
Pk_max_txn_id(t, l) == [t EXCEPT !.max_txn_id = Max(@, l.txn_id)]

\* Lines 96-98
Pk_op_write(t, l) ==
    Step(t, l.has_op_write, "op_write",
         check_and_recover(t, PublishFunc("apply_write_log", l.op_write)), FALSE)

\* Lines 99-102
Pk_op_compaction(t, l) ==
    Step(t, l.has_op_compaction, "op_compaction",
         check_and_recover(t, PublishFunc("apply_compaction_log", l.op_compaction)), FALSE)

\* Lines 103-105
Pk_op_schema_change(t, l) ==
    Step(t, l.has_op_schema_change, "op_schema_change",
         Pk_apply_schema_change_log(t, l.op_schema_change), FALSE)

\* Lines 106-109
Pk_op_alter_metadata(t, l) ==
    Step(t, l.has_op_alter_metadata, "op_alter_metadata",
         apply_alter_meta_log([t EXCEPT !.dcheck = @ /\ t.base_version + 1 = t.new_version],
                              l.op_alter_metadata),
         TRUE)

\* Lines 110-112
Pk_op_replication(t, l) ==
    Step(t, l.has_op_replication, "op_replication",
         Pk_apply_replication_log(t, l.op_replication), FALSE)

\* The statements of apply, first to last
Pk_apply(t, l) ==
    apply_end(
        Pk_op_replication(
            Pk_op_alter_metadata(
                Pk_op_schema_change(
                    Pk_op_compaction(
                        Pk_op_write(Pk_max_txn_id(t, l), l), l), l), l), l))

Pk_init(t) ==
    LET o == Answer(t)
    IN Returned(Asked(t, "check_meta_version"), o.st)

\* Pk_finish that goes on to finalize after a failed commit
Pk_finish_ignore_commit(t) ==
    LET t1 == IF t.index_entry THEN Asked(t, "commit") ELSE t
        t2 == IF t.index_entry THEN Called(t1, "update_object_size") ELSE t1
        o == Answer(t2)
        t3 == Asked(t2, "finalize")
    IN IF o.st # OK THEN Returned(t3, o.st)
       ELSE Returned([t3 EXCEPT !.env.store = @ \cup {t3.metadata}, !.has_finalized = TRUE], OK)

Pk_finish(t) ==
    LET oc == Answer(t)
        t1 == IF t.index_entry THEN Asked(t, "commit") ELSE t
    IN IF t.index_entry /\ oc.st # OK THEN Returned(t1, oc.st)
       ELSE LET t2 == IF t.index_entry THEN Called(t1, "update_object_size") ELSE t1
                o == Answer(t2)
                t3 == Asked(t2, "finalize")
            IN IF o.st # OK THEN Returned(t3, o.st)
               ELSE Returned([t3 EXCEPT !.env.store = @ \cup {t3.metadata},
                                        !.has_finalized = TRUE],
                             OK)

\* handle_failure that does not look at _has_finalized
handle_failure_ignore_finalized(t) ==
    LET t1 == IF t.index_entry
              THEN remove_primary_index_cache(
                       [Called(Called([t EXCEPT !.env.loaded = FALSE], "unload"), "guard.reset")
                           EXCEPT !.guard = FALSE])
              ELSE release_primary_index_cache(t)
    IN Returned([t1 EXCEPT !.index_entry = FALSE], OK)

handle_failure(t) ==
    LET t1 == IF t.index_entry /\ ~t.has_finalized
              THEN remove_primary_index_cache(
                       [Called(Called([t EXCEPT !.env.loaded = FALSE], "unload"), "guard.reset")
                           EXCEPT !.guard = FALSE])
              ELSE release_primary_index_cache(t)
    IN Returned([t1 EXCEPT !.index_entry = FALSE], OK)

-----------------------------------------------------------------------------
(* Driver calls *)

Call(fn, l) == [fn |-> fn, log |-> l]

\* The threaded record at the start of a driver call, from the variables
T0 == [kind |-> kind, cfg |-> cfg, metadata |-> metadata, base_version |-> base_version,
       new_version |-> new_version, max_txn_id |-> max_txn_id, builder |-> builder,
       index_entry |-> index_entry, guard |-> guard, has_finalized |-> has_finalized,
       env |-> env, orc |-> <<>>, asked |-> <<>>, calls |-> <<>>, trace |-> <<>>,
       st |-> OK, done |-> FALSE, dcheck |-> TRUE]

\* new_txn_log_applier's dispatch on keys_type, for each driver call
Exec(t, c) ==
    CASE c.fn = "init" -> IF t.kind = "PK" THEN Pk_init(t) ELSE Returned(t, OK)
      [] c.fn = "apply" -> IF t.kind = "PK" THEN Pk_apply(t, c.log) ELSE NonPk_apply(t, c.log)
      [] c.fn = "finish" -> IF t.kind = "PK" THEN Pk_finish(t) ELSE NonPk_finish(t)
      [] c.fn = "destroy" -> IF t.kind = "PK" THEN handle_failure(t) ELSE Returned(t, OK)

\* Every way the collaborators can answer the calls that driver call `c` makes from `t`:
\* the answer lists that the call consumes exactly
\* (`plain`: only the answers that leave the recover flag alone)
RECURSIVE Oracles(_, _, _, _)
Oracles(t, c, prefix, plain) ==
    LET r == Exec([t EXCEPT !.orc = prefix], c)
    IN IF Len(r.asked) <= Len(prefix) THEN {prefix}
       ELSE UNION {Oracles(t, c, Append(prefix, o), plain) :
                       o \in IF plain THEN StatusOutcomes
                              ELSE OutcomesOf(r.asked[Len(prefix) + 1])}

-----------------------------------------------------------------------------
(* Inputs: the logs handed to apply *)

NoWrite == [has_rowset |-> FALSE, rowset |-> NoRowset, dels_size |-> 0]

NoCompaction ==
    [input_rowsets |-> <<>>, has_output_rowset |-> FALSE, output_rowset |-> NoRowset]

NoSchemaChange ==
    [rowsets |-> <<>>, has_delvec_meta |-> FALSE, delvec_meta |-> "none",
     linked_segment |-> FALSE, alter_version |-> 0]

NoAlter == [metadata_update_infos |-> <<>>]

NoReplication ==
    [txn_meta |-> [txn_state |-> "TXN_REPLICATED", snapshot_version |-> 0,
                   incremental_snapshot |-> FALSE],
     op_writes |-> <<>>, delvecs |-> {}, has_source_schema |-> FALSE, source_schema |-> "none"]

EmptyLog(txn_id) ==
    [txn_id |-> txn_id,
     has_op_write |-> FALSE, op_write |-> NoWrite,
     has_op_compaction |-> FALSE, op_compaction |-> NoCompaction,
     has_op_schema_change |-> FALSE, op_schema_change |-> NoSchemaChange,
     has_op_alter_metadata |-> FALSE, op_alter_metadata |-> NoAlter,
     has_op_replication |-> FALSE, op_replication |-> NoReplication]

WithWrite(l, w) == [l EXCEPT !.has_op_write = TRUE, !.op_write = w]
WithCompaction(l, c) == [l EXCEPT !.has_op_compaction = TRUE, !.op_compaction = c]
WithSchemaChange(l, sc) == [l EXCEPT !.has_op_schema_change = TRUE, !.op_schema_change = sc]
WithAlter(l, am) == [l EXCEPT !.has_op_alter_metadata = TRUE, !.op_alter_metadata = am]
WithReplication(l, r) == [l EXCEPT !.has_op_replication = TRUE, !.op_replication = r]

OpWrite(rowset, dels) == [has_rowset |-> TRUE, rowset |-> rowset, dels_size |-> dels]

\* A write of one segment (the id it carries is the writer's, not the tablet's)
WriteRows == OpWrite(Rowset(7, 1, 1, FALSE), 0)
\* A write of two segments
WriteTwoSegments == OpWrite(Rowset(0, 2, 1, FALSE), 0)
\* A delete-predicate write: no rows, no segments
WriteDeletePredicate == OpWrite(Rowset(5, 0, 0, TRUE), 0)
\* A rowset without rows or delete predicate
WriteNoRows == OpWrite(Rowset(0, 1, 0, FALSE), 0)
\* Deletes only
WriteDels == OpWrite(Rowset(0, 0, 0, FALSE), 1)

WriteOps == {NoWrite, WriteRows, WriteTwoSegments, WriteDeletePredicate, WriteNoRows, WriteDels}

\* The writes embedded in replication ops; their ids are ids of the source tablet
ReplicatedWrites ==
    {OpWrite(Rowset(0, 1, 1, FALSE), 0), OpWrite(Rowset(1, 2, 1, FALSE), 0),
     OpWrite(Rowset(5, 0, 0, FALSE), 0)}

OutputRowsets == {Rowset(0, 2, 1, FALSE), Rowset(0, 0, 1, FALSE), Rowset(0, 1, 0, FALSE)}

OpCompaction(inputs, has_output, output) ==
    [input_rowsets |-> inputs, has_output_rowset |-> has_output, output_rowset |-> output]

\* Ids a compaction op may name: those of the rowsets and one that names none
InputIds(m) == {m.rowsets[i].id : i \in 1..Len(m.rowsets)} \cup {m.next_rowset_id}

CompactionOps(m) ==
    {OpCompaction(inputs, FALSE, NoRowset) : inputs \in SeqsUpTo(InputIds(m), MaxInputs)}
    \cup {OpCompaction(inputs, TRUE, out) :
              inputs \in SeqsUpTo(InputIds(m), MaxInputs), out \in OutputRowsets}

\* The primary-key publish is driven with the input lists that name leading rowsets
PkCompactionOps(m) ==
    {c \in CompactionOps(m) :
        /\ Len(c.input_rowsets) <= Len(m.rowsets)
        /\ \A i \in 1..Len(c.input_rowsets) : c.input_rowsets[i] = m.rowsets[i].id
        /\ c.has_output_rowset = (Len(c.input_rowsets) = MaxInputs)
        /\ c.output_rowset \in {NoRowset, Rowset(0, 2, 1, FALSE)}}

OpSchemaChange(rowsets, has_delvec_meta, alter_version) ==
    [rowsets |-> rowsets, has_delvec_meta |-> has_delvec_meta,
     delvec_meta |-> IF has_delvec_meta THEN "schema_change" ELSE "none",
     linked_segment |-> has_delvec_meta, alter_version |-> alter_version]

SchemaChangeRowsets ==
    {<<>>, <<Rowset(1, 1, 1, FALSE), Rowset(2, 2, 1, FALSE)>>,
     <<Rowset(3, 2, 1, FALSE), Rowset(1, 1, 1, FALSE)>>}

SchemaChangeOps(k, base, new) ==
    {OpSchemaChange(rs, dv, av) :
        rs \in SchemaChangeRowsets,
        dv \in IF k = "PK" THEN BOOLEAN ELSE {FALSE},
        av \in IF k = "PK" THEN base..(new - 1) ELSE {base}}

UpdateInfo(has_epi, epi, has_schema, schema) ==
    [has_enable_persistent_index |-> has_epi, enable_persistent_index |-> epi,
     has_tablet_schema |-> has_schema, tablet_schema |-> schema]

AlterOps ==
    {[metadata_update_infos |-> <<UpdateInfo(TRUE, TRUE, FALSE, "none")>>],
     [metadata_update_infos |-> <<UpdateInfo(FALSE, FALSE, TRUE, "schema1")>>],
     [metadata_update_infos |->
         <<UpdateInfo(TRUE, FALSE, TRUE, "schema1"), UpdateInfo(FALSE, FALSE, TRUE, "schema2")>>]}

OpReplication(txn_state, snapshot_version, incremental, op_writes, delvecs, has_source) ==
    [txn_meta |-> [txn_state |-> txn_state, snapshot_version |-> snapshot_version,
                   incremental_snapshot |-> incremental],
     op_writes |-> op_writes, delvecs |-> delvecs, has_source_schema |-> has_source,
     source_schema |-> IF has_source THEN "source1" ELSE "none"]

\* Segment ids of the delete vectors a full snapshot carries
ReplicatedDelvecs(k) == IF k = "PK" THEN {{}, {0, 1}} ELSE {{}}

ReplicationOps(k, new) ==
    \* well framed
    {OpReplication("TXN_REPLICATED", new, inc, ws, dv, ws # <<>>) :
        inc \in BOOLEAN, ws \in SeqsUpTo(ReplicatedWrites, MaxWrites),
        dv \in ReplicatedDelvecs(k)}
    \* wrong state, wrong snapshot version
    \cup {OpReplication("TXN_SNAPSHOTED", new, inc, <<WriteRows>>, {}, TRUE) : inc \in BOOLEAN}
    \cup {OpReplication("TXN_REPLICATED", v, inc, <<WriteRows>>, {}, TRUE) :
              inc \in BOOLEAN, v \in {new - 1, new + 1}}

\* The writes the primary-key publish is driven with
PkWriteOps == {NoWrite, WriteRows, WriteDeletePredicate, WriteDels}

\* Logs that carry one op field.  Only the primary-key applier reads txn_id; its running
\* maximum is exercised by the write logs.
SingleOpLogs(t) ==
    LET m == t.metadata
        e == EmptyLog(1)
    IN {WithWrite(e, w) : w \in IF t.kind = "PK" THEN PkWriteOps ELSE WriteOps}
       \cup {WithWrite(EmptyLog(x), WriteRows) : x \in IF t.kind = "PK" THEN 1..MaxTxnId ELSE {1}}
       \cup {WithCompaction(e, c) :
                 c \in IF t.kind = "PK" THEN PkCompactionOps(m) ELSE CompactionOps(m)}
       \cup {WithSchemaChange(e, sc) :
                 sc \in SchemaChangeOps(t.kind, t.base_version, t.new_version)}
       \cup {WithAlter(e, am) : am \in AlterOps}
       \cup {WithReplication(e, r) : r \in ReplicationOps(t.kind, t.new_version)}

\* Logs that carry several op fields
MultiOpLogs(t) ==
    LET m == t.metadata
        writes == {NoWrite, WriteRows}
        compactions ==
            {NoCompaction, OpCompaction(<<m.next_rowset_id>>, FALSE, NoRowset)}
            \cup (IF m.rowsets = <<>> THEN {}
                  ELSE {OpCompaction(<<m.rowsets[1].id>>, TRUE, Rowset(0, 2, 1, FALSE))})
        schema_changes ==
            {NoSchemaChange,
             OpSchemaChange(<<Rowset(1, 1, 1, FALSE), Rowset(2, 2, 1, FALSE)>>, FALSE,
                            t.new_version - 1)}
        alters == {NoAlter, [metadata_update_infos |-> <<UpdateInfo(TRUE, TRUE, TRUE, "schema1")>>]}
        replications ==
            {NoReplication,
             OpReplication("TXN_REPLICATED", t.new_version, FALSE,
                           <<OpWrite(Rowset(0, 1, 1, FALSE), 0)>>, {}, TRUE),
             OpReplication("TXN_SNAPSHOTED", t.new_version, FALSE, <<WriteRows>>, {}, TRUE)}
        all == {[txn_id |-> x,
                 has_op_write |-> w # NoWrite, op_write |-> w,
                 has_op_compaction |-> c # NoCompaction, op_compaction |-> c,
                 has_op_schema_change |-> sc # NoSchemaChange, op_schema_change |-> sc,
                 has_op_alter_metadata |-> am # NoAlter, op_alter_metadata |-> am,
                 has_op_replication |-> r # NoReplication, op_replication |-> r] :
                    x \in {1}, w \in writes, c \in compactions, sc \in schema_changes,
                    am \in alters, r \in replications}
        count(l) == (IF l.has_op_write THEN 1 ELSE 0) + (IF l.has_op_compaction THEN 1 ELSE 0)
                    + (IF l.has_op_schema_change THEN 1 ELSE 0)
                    + (IF l.has_op_alter_metadata THEN 1 ELSE 0)
                    + (IF l.has_op_replication THEN 1 ELSE 0)
    IN {l \in all : count(l) >= 2}

-----------------------------------------------------------------------------
(* Initial states: the applier as its constructor leaves it *)

Metadata(version, rowsets, next_rowset_id, cumulative_point, compaction_inputs) ==
    [version |-> version, schema |-> "schema0", enable_persistent_index |-> FALSE,
     rowsets |-> rowsets, next_rowset_id |-> next_rowset_id,
     cumulative_point |-> cumulative_point, delvec_meta |-> "base",
     compaction_inputs |-> compaction_inputs, source_schema |-> "none"]

\* A tablet that holds rowsets A, B (two segments), C and D (a delete predicate)
BaseRowsets ==
    <<Rowset(1, 1, 1, FALSE), Rowset(2, 2, 1, FALSE), Rowset(4, 1, 1, FALSE),
      Rowset(5, 0, 0, TRUE)>>

\* The tablet metadata the applier is built from: a new tablet at version 1, or the
\* tablet above at version 2 after one earlier compaction
BaseMetadatas(k) ==
    {Metadata(1, <<>>, 1, 0, <<>>)}
    \cup {Metadata(2, BaseRowsets, 6, cp, <<Rowset(0, 1, 1, FALSE)>>) :
              cp \in IF k = "PK" THEN {2} ELSE 0..Len(BaseRowsets)}

\* A tablet of two rowsets, of two segments and of one, with next_rowset_id 4
TwoRowsetMetadata ==
    Metadata(1, <<Rowset(1, 2, 1, FALSE), Rowset(3, 1, 1, FALSE)>>, 4, 0, <<>>)

\* The fields of an applier that is not running: what the constructor set and what its
\* driver calls left
Parked ==
    [metadata |-> metadata, base_version |-> base_version, new_version |-> new_version,
     max_txn_id |-> max_txn_id, builder |-> builder, index_entry |-> index_entry,
     guard |-> guard, has_finalized |-> has_finalized, phase |-> phase,
     napplied |-> napplied]

InitFrom(k, bases, bumps) ==
    /\ kind = k
    /\ \E base \in bases, bump \in bumps, flag \in BOOLEAN :
          /\ base_version = base.version
          /\ new_version = base.version + bump
          \* PrimaryKeyTxnLogApplier's constructor sets the version; the other one does not
          /\ metadata = IF kind = "PK" THEN [base EXCEPT !.version = base.version + bump]
                        ELSE base
          /\ cfg = [enable_primary_key_recover |-> kind = "PK" /\ flag,
                    enable_size_tiered_compaction_strategy |-> kind = "NONPK" /\ flag]
          /\ env = [store |-> {base}, pins |-> 0, cached |-> FALSE, loaded |-> FALSE,
                    lock |-> 0, relocked |-> FALSE, persistent_index |-> FALSE]
    /\ max_txn_id = 0
    /\ builder = [recover_flag |-> "OK", delvecs |-> {}]
    /\ index_entry = FALSE
    /\ guard = FALSE
    /\ has_finalized = FALSE
    /\ phase = "new"
    /\ last = "new"
    /\ napplied = 0
    /\ pre = Fields(T0)
    /\ log = EmptyLog(0)
    /\ oracle = <<>>
    /\ status = OK
    /\ trace = <<>>
    /\ calls = <<>>
    /\ other = Parked

InitWith(kinds, bumps) == \E k \in kinds : InitFrom(k, BaseMetadatas(k), bumps)

InitOf(kinds) == InitWith(kinds, 1..MaxBump)

Init == InitOf({"PK", "NONPK"})

-----------------------------------------------------------------------------
(* Actions: one per driver call *)

\* Where a driver call that returned `st` leaves the driver
NextPhase(fn, st) ==
    CASE fn = "destroy" -> "destroyed"
      [] st # OK -> "failed"
      [] fn = "finish" -> "finished"
      [] OTHER -> "ready"

\* The variables after driver call `c` that ended as `r` under answers `o`
Done(r, c, o) ==
    /\ r.dcheck
    /\ metadata' = r.metadata
    /\ base_version' = r.base_version
    /\ new_version' = r.new_version
    /\ max_txn_id' = r.max_txn_id
    /\ builder' = r.builder
    /\ index_entry' = r.index_entry
    /\ guard' = r.guard
    /\ has_finalized' = r.has_finalized
    /\ env' = r.env
    /\ phase' = NextPhase(c.fn, r.st)
    /\ last' = c.fn
    /\ pre' = Fields(T0)
    /\ log' = c.log
    /\ oracle' = [i \in 1..Len(o) |-> [call |-> r.asked[i], st |-> o[i].st, flag |-> o[i].flag]]
    /\ status' = r.st
    /\ trace' = r.trace
    /\ calls' = r.calls
    /\ UNCHANGED <<kind, cfg, other>>

\* Driver call `c` under collaborator answers `o`; calls that trip a DCHECK are not made
Do(c, o) == Done(Exec([T0 EXCEPT !.orc = o], c), c, o)

DriverInit ==
    /\ phase = "new"
    /\ \E o \in Oracles(T0, Call("init", EmptyLog(0)), <<>>, FALSE) :
          Do(Call("init", EmptyLog(0)), o)
    /\ UNCHANGED napplied

ApplyFrom(logs, plain) ==
    /\ phase = "ready"
    /\ napplied < MaxApplies
    /\ \E l \in logs :
          \E o \in Oracles(T0, Call("apply", l), <<>>, plain) :
              Do(Call("apply", l), o)
    /\ napplied' = napplied + 1

ApplySingle == ApplyFrom(SingleOpLogs(T0), FALSE)

\* Logs of several ops, under collaborators that fail without asking for a recover
ApplyMulti == ApplyFrom(MultiOpLogs(T0), TRUE)

Finish ==
    /\ phase = "ready"
    /\ \E o \in Oracles(T0, Call("finish", EmptyLog(0)), <<>>, FALSE) :
          Do(Call("finish", EmptyLog(0)), o)
    /\ UNCHANGED napplied

Destroy ==
    /\ phase \in {"new", "ready", "failed", "finished"}
    /\ Do(Call("destroy", EmptyLog(0)), <<>>)
    /\ UNCHANGED napplied

-----------------------------------------------------------------------------
(* Two appliers on one tablet.  The variables hold the applier whose thread *)
(* runs, `other` the one that waits; they share the collaborators' state    *)
(* `env`.  A driver call of one applier runs to its end before the other    *)
(* applier's next call starts.                                              *)

\* The running thread is descheduled and the other applier's thread runs
Switch ==
    /\ metadata' = other.metadata
    /\ base_version' = other.base_version
    /\ new_version' = other.new_version
    /\ max_txn_id' = other.max_txn_id
    /\ builder' = other.builder
    /\ index_entry' = other.index_entry
    /\ guard' = other.guard
    /\ has_finalized' = other.has_finalized
    /\ phase' = other.phase
    /\ napplied' = other.napplied
    /\ other' = Parked
    /\ last' = "switch"
    /\ pre' = [metadata |-> other.metadata, base_version |-> other.base_version,
               max_txn_id |-> other.max_txn_id, builder |-> other.builder,
               index_entry |-> other.index_entry, guard |-> other.guard,
               has_finalized |-> other.has_finalized, env |-> env]
    /\ log' = EmptyLog(0)
    /\ oracle' = <<>>
    /\ status' = OK
    /\ trace' = <<>>
    /\ calls' = <<>>
    /\ UNCHANGED <<kind, cfg, env>>

\* UpdateManager::check_meta_version fails once the store has moved past base_version
InitTwo ==
    /\ DriverInit
    /\ (\E m \in env.store : m.version > base_version) => status' # OK

\* The logs the two appliers are handed: a write, or a change of the tablet schema
TwoLogs ==
    {WithWrite(EmptyLog(1), WriteRows),
     WithAlter(EmptyLog(1), [metadata_update_infos |-> <<UpdateInfo(FALSE, FALSE, TRUE, "schema1")>>])}

\* prepare_primary_index waits for the index guard while the other applier holds it
ApplyTwo ==
    /\ napplied < MaxTwoApplies
    /\ ApplyFrom(TwoLogs, TRUE)
    /\ other.guard => CountOf(calls', "prepare_primary_index") = 0

Next == DriverInit \/ ApplySingle \/ ApplyMulti \/ Finish \/ Destroy

Spec == Init /\ [][Next]_vars

\* The non-primary-key applier under logs of one op
SpecNonPk == InitOf({"NONPK"}) /\ [][DriverInit \/ ApplySingle]_vars

\* The primary-key applier under logs of one op
SpecPk == InitOf({"PK"}) /\ [][DriverInit \/ ApplySingle]_vars

\* The non-primary-key applier on a new tablet and on the tablet of two rowsets
SpecNonPkWrite ==
    /\ InitFrom("NONPK", {Metadata(1, <<>>, 1, 0, <<>>), TwoRowsetMetadata}, 1..MaxBump)
    /\ [][DriverInit \/ ApplySingle]_vars

\* Two primary-key appliers built for the same tablet, base version and new version
SpecTwo ==
    /\ InitFrom("PK", {Metadata(1, <<>>, 1, 0, <<>>)}, {1})
    /\ [][InitTwo \/ ApplyTwo \/ Finish \/ Destroy \/ Switch]_vars

\* Both appliers under logs of one op
SpecApply == Init /\ [][DriverInit \/ ApplySingle]_vars

\* Both appliers under logs of several ops
SpecMulti == Init /\ [][DriverInit \/ ApplyMulti]_vars

\* The primary-key applier, from construction to destruction, with up to MaxCheckpointBump
\* versions between the base version and the new one
SpecCheckpoint ==
    /\ InitWith({"PK"}, 1..MaxCheckpointBump)
    /\ [][DriverInit \/ ApplySingle \/ Finish \/ Destroy]_vars

-----------------------------------------------------------------------------
(* Vocabulary of the properties *)

AfterApply == last = "apply"

\* The ops the last apply ran, in the order it ran them
Ran == [i \in 1..Len(trace) |-> trace[i].op]

RanOp(op) == \E i \in 1..Len(trace) : trace[i].op = op

\* Position of an op field in the documented order
OpRank(op) ==
    CASE op = "op_write" -> 1
      [] op = "op_compaction" -> 2
      [] op = "op_schema_change" -> 3
      [] op = "op_alter_metadata" -> 4
      [] op = "op_replication" -> 5

OpCount(l) ==
    (IF l.has_op_write THEN 1 ELSE 0) + (IF l.has_op_compaction THEN 1 ELSE 0)
    + (IF l.has_op_schema_change THEN 1 ELSE 0) + (IF l.has_op_alter_metadata THEN 1 ELSE 0)
    + (IF l.has_op_replication THEN 1 ELSE 0)

\* The applier's fields and the collaborators' state now
Now ==
    [metadata |-> metadata, base_version |-> base_version, max_txn_id |-> max_txn_id,
     builder |-> builder, index_entry |-> index_entry, guard |-> guard,
     has_finalized |-> has_finalized, env |-> env]

-----------------------------------------------------------------------------
(* C1: within one apply the op fields run in the order write, compaction,   *)
(* schema change, metadata alteration, replication, for both appliers: of   *)
(* two op steps that ran, the one earlier in that order ran first (so the   *)
(* alteration is never applied after the replication).                      *)
C1_FixedOrder ==
    AfterApply =>
        \A i, j \in 1..Len(trace) : i < j => OpRank(trace[i].op) < OpRank(trace[j].op)

(* C2: the first op step that returns a non-OK status ends apply with that  *)
(* status; no later op field runs and nothing changes after the failing     *)
(* step.                                                                    *)
C2_FirstErrorAborts ==
    AfterApply =>
        /\ \A i \in 1..(Len(trace) - 1) :
               trace[i].st = OK /\ trace[i + 1].before = trace[i].after
        /\ status # OK =>
               /\ trace # <<>>
               /\ trace[Len(trace)].st = status
               /\ trace[Len(trace)].after = Now

\* A step failed and an op field the log carries was left out
C2_Witness ==
    /\ AfterApply
    /\ status # OK
    /\ Len(trace) >= 2
    /\ log.has_op_replication /\ ~RanOp("op_replication")
    /\ trace[1].after # trace[1].before

-----------------------------------------------------------------------------
(* Rowset ids *)

\* The ids a rowset uses: [id, id + max(1, segments_size))
IdRange(r) == r.id..(r.id + Max(1, r.segments_size) - 1)

RowsetIdsDisjoint(m) ==
    LET all == m.rowsets \o m.compaction_inputs
    IN /\ \A i, j \in 1..Len(all) : i # j => IdRange(all[i]) \cap IdRange(all[j]) = {}
       /\ \A i \in 1..Len(all) : \A x \in IdRange(all[i]) : x < m.next_rowset_id

(* C3: for the non-primary-key applier, as long as every apply has          *)
(* succeeded, the id ranges of the rowsets in rowsets and compaction_inputs *)
(* are pairwise disjoint and every used id is below next_rowset_id (the     *)
(* base metadata has the property).                                         *)
C3_RowsetIdsDisjoint ==
    (kind = "NONPK" /\ phase \in {"new", "ready"}) => RowsetIdsDisjoint(metadata)

(* C4: for the non-primary-key applier, as long as every apply has          *)
(* succeeded, 0 <= cumulative_point <= rowsets_size, with size-tiered       *)
(* compaction enabled or not (the base metadata has the property).          *)
C4_CumulativePointBound ==
    (kind = "NONPK" /\ phase \in {"new", "ready"}) =>
        /\ 0 <= metadata.cumulative_point
        /\ metadata.cumulative_point <= Len(metadata.rowsets)

\* A compaction without size tiering moved the cumulative point to the end of the rowsets
C4_Witness ==
    /\ AfterApply /\ kind = "NONPK" /\ status = OK
    /\ RanOp("op_compaction")
    /\ ~cfg.enable_size_tiered_compaction_strategy
    /\ metadata.cumulative_point # pre.metadata.cumulative_point
    /\ metadata.cumulative_point = Len(metadata.rowsets)
    /\ metadata.cumulative_point > 0

-----------------------------------------------------------------------------
(* Compaction of the non-primary-key applier *)

\* The last apply ran a compaction with inputs on the non-primary-key applier
NonPkCompacted ==
    /\ AfterApply /\ kind = "NONPK"
    /\ RanOp("op_compaction")
    /\ log.op_compaction.input_rowsets # <<>>

\* The ids occur in the rowsets next to each other and in this order, from position p on
OccursAt(rowsets, ids, p) ==
    /\ p + Len(ids) - 1 <= Len(rowsets)
    /\ \A i \in 1..Len(ids) : rowsets[p + i - 1].id = ids[i]

Contiguous(rowsets, ids) == \E p \in 1..Len(rowsets) : OccursAt(rowsets, ids, p)

(* C5: a compaction with inputs succeeds only if the input ids occur in the *)
(* rowsets as a contiguous run in the same order; for every other input     *)
(* list apply fails with InternalError and rowsets, compaction_inputs,      *)
(* next_rowset_id and cumulative_point are as before.                       *)
C5_AdjacencyEnforced ==
    NonPkCompacted =>
        LET inputs == log.op_compaction.input_rowsets
            adjacent == Contiguous(pre.metadata.rowsets, inputs)
        IN /\ status = OK => adjacent
           /\ ~adjacent =>
                  /\ status = "InternalError"
                  /\ metadata.rowsets = pre.metadata.rowsets
                  /\ metadata.compaction_inputs = pre.metadata.compaction_inputs
                  /\ metadata.next_rowset_id = pre.metadata.next_rowset_id
                  /\ metadata.cumulative_point = pre.metadata.cumulative_point

\* Inputs [A, C] on rowsets [A, B, C, D]: both present, not adjacent
C5_Witness ==
    /\ NonPkCompacted
    /\ status = "InternalError"
    /\ Len(pre.metadata.rowsets) = 4
    /\ log.op_compaction.input_rowsets
           = <<pre.metadata.rowsets[1].id, pre.metadata.rowsets[3].id>>

(* C6: a successful compaction with k >= 1 inputs that start at first_idx   *)
(* keeps the rowsets before first_idx and after first_idx + k - 1 as they   *)
(* are and in order, appends the k inputs in order to compaction_inputs,    *)
(* and, when the output rowset has num_rows > 0, puts it at first_idx with  *)
(* the pre-apply next_rowset_id as id and adds output.segments_size to      *)
(* next_rowset_id; otherwise it inserts nothing and leaves next_rowset_id.  *)
C6_CompactionSplice ==
    (NonPkCompacted /\ status = OK) =>
        LET old == pre.metadata
            op == log.op_compaction
            k == Len(op.input_rowsets)
            has_output == op.has_output_rowset /\ op.output_rowset.num_rows > 0
            output == [op.output_rowset EXCEPT !.id = old.next_rowset_id]
        IN \E p \in 1..Len(old.rowsets) :
              /\ OccursAt(old.rowsets, op.input_rowsets, p)
              /\ metadata.compaction_inputs
                     = old.compaction_inputs \o SubSeq(old.rowsets, p, p + k - 1)
              /\ metadata.rowsets
                     = SubSeq(old.rowsets, 1, p - 1)
                       \o (IF has_output THEN <<output>> ELSE <<>>)
                       \o SubSeq(old.rowsets, p + k, Len(old.rowsets))
              /\ metadata.next_rowset_id
                     = old.next_rowset_id + (IF has_output THEN output.segments_size ELSE 0)

\* Rowsets [A, B, C, D], inputs [B, C], an output of two segments: [A, X, D]
C6_Witness ==
    /\ NonPkCompacted /\ status = OK
    /\ Len(pre.metadata.rowsets) = 4
    /\ log.op_compaction.input_rowsets
           = <<pre.metadata.rowsets[2].id, pre.metadata.rowsets[3].id>>
    /\ log.op_compaction.output_rowset.segments_size = 2
    /\ Len(metadata.rowsets) = 3
    /\ metadata.rowsets[2].id = pre.metadata.next_rowset_id
    /\ metadata.next_rowset_id = pre.metadata.next_rowset_id + 2

-----------------------------------------------------------------------------
(* Empty ops *)

\* The last apply was handed only a write without rows, dels and delete predicate, or only
\* a compaction without inputs
EmptyOpApplied ==
    /\ AfterApply
    /\ OpCount(log) = 1
    /\ \/ /\ log.has_op_write
          /\ log.op_write.dels_size = 0
          /\ log.op_write.rowset.num_rows = 0
          /\ ~log.op_write.rowset.has_delete_predicate
       \/ /\ log.has_op_compaction
          /\ log.op_compaction.input_rowsets = <<>>

RowsetFieldsUnchanged ==
    /\ metadata.rowsets = pre.metadata.rowsets
    /\ metadata.compaction_inputs = pre.metadata.compaction_inputs
    /\ metadata.next_rowset_id = pre.metadata.next_rowset_id
    /\ metadata.cumulative_point = pre.metadata.cumulative_point

(* C7 as stated: for both appliers an empty write or an empty compaction    *)
(* returns OK and leaves rowsets, compaction_inputs, next_rowset_id and     *)
(* cumulative_point unchanged.                                              *)
C7_EmptyOpReturnsOk == EmptyOpApplied => (status = OK /\ RowsetFieldsUnchanged)

(* C7, amended: an empty write or an empty compaction leaves rowsets,       *)
(* compaction_inputs, next_rowset_id and cumulative_point unchanged for     *)
(* both appliers; it returns OK, except that the primary-key applier        *)
(* returns the error of prepare_primary_index or of the recover routine     *)
(* when one of them fails.                                                  *)
C7_EmptyOpSkip ==
    EmptyOpApplied =>
        /\ RowsetFieldsUnchanged
        /\ \/ status = OK
           \/ /\ kind = "PK"
              /\ oracle # <<>>
              /\ oracle[Len(oracle)].st = status
              /\ oracle[Len(oracle)].call \in {"prepare_primary_index", "recover"}

\* The primary-key applier skipped an empty write after acquiring the index
C7_Witness ==
    /\ EmptyOpApplied /\ kind = "PK"
    /\ log.has_op_write
    /\ status = OK
    /\ index_entry /\ ~pre.index_entry

-----------------------------------------------------------------------------
(* Replication *)

\* The last apply ran the replication step of a log that carries nothing else
Replicated == AfterApply /\ OpCount(log) = 1 /\ RanOp("op_replication")

BadFraming ==
    \/ log.op_replication.txn_meta.txn_state # "TXN_REPLICATED"
    \/ log.op_replication.txn_meta.snapshot_version # new_version

(* C8: for both appliers a replication op whose txn_state is not            *)
(* TXN_REPLICATED, or whose snapshot_version is not new_version, makes      *)
(* apply return Corruption; the step leaves the metadata and the            *)
(* collaborators as they were and calls none of them (no index unload).     *)
C8_ReplicationFraming ==
    (Replicated /\ BadFraming) =>
        /\ status = "Corruption"
        /\ metadata = pre.metadata
        /\ builder = pre.builder
        /\ env = pre.env
        /\ calls = <<>>

\* A replication op for another version was refused on a tablet that holds rowsets
C8_Witness ==
    /\ Replicated
    /\ log.op_replication.txn_meta.txn_state = "TXN_REPLICATED"
    /\ log.op_replication.txn_meta.snapshot_version # new_version
    /\ status = "Corruption"
    /\ metadata.rowsets # <<>>

\* The threaded record of a driver call that starts from fields `f` under answers `orc`
FromFields(f, orc) ==
    [kind |-> kind, cfg |-> cfg, metadata |-> f.metadata, base_version |-> f.base_version,
     new_version |-> new_version, max_txn_id |-> f.max_txn_id, builder |-> f.builder,
     index_entry |-> f.index_entry, guard |-> f.guard, has_finalized |-> f.has_finalized,
     env |-> f.env, orc |-> orc, asked |-> <<>>, calls |-> <<>>, trace |-> <<>>,
     st |-> OK, done |-> FALSE, dcheck |-> TRUE]

\* apply of one log per write, in order, each log carrying only that op_write; stops at
\* the first apply that fails
RECURSIVE ApplySeparately(_, _, _)
ApplySeparately(t, op_writes, i) ==
    IF i > Len(op_writes) THEN t
    ELSE LET r == Exec([t EXCEPT !.trace = <<>>, !.done = FALSE],
                       Call("apply", WithWrite(EmptyLog(log.txn_id), op_writes[i])))
         IN IF r.st # OK THEN r ELSE ApplySeparately(r, op_writes, i + 1)

\* The answers the collaborators gave during the last driver call
Answers == [i \in 1..Len(oracle) |-> Outcome(oracle[i].st, oracle[i].flag)]

(* C9: an incremental replication with op_writes [w1..wk] leaves the same   *)
(* rowsets, next_rowset_id, cumulative_point and compaction_inputs as k     *)
(* applies of logs that carry only op_write wi, in the same order, under    *)
(* collaborators that answer the same.                                      *)
C9_IncrementalAsWrites ==
    (Replicated /\ ~BadFraming /\ log.op_replication.txn_meta.incremental_snapshot) =>
        LET r == ApplySeparately(FromFields(pre, Answers), log.op_replication.op_writes, 1)
        IN /\ metadata.rowsets = r.metadata.rowsets
           /\ metadata.next_rowset_id = r.metadata.next_rowset_id
           /\ metadata.cumulative_point = r.metadata.cumulative_point
           /\ metadata.compaction_inputs = r.metadata.compaction_inputs

(* C10: after a successful full-snapshot replication, for both appliers,    *)
(* every rowset has an id >= the pre-apply next_rowset_id, the pre-apply    *)
(* rowsets are in compaction_inputs, cumulative_point is 0 and              *)
(* next_rowset_id is above every new id range; for the primary-key applier  *)
(* the i-th rowset has the id of the i-th op_write's rowset plus the        *)
(* pre-apply next_rowset_id and unload of the primary index was requested.  *)
C10_FullSnapshot ==
    (Replicated /\ ~BadFraming /\ ~log.op_replication.txn_meta.incremental_snapshot
     /\ status = OK) =>
        LET old == pre.metadata
            op_writes == log.op_replication.op_writes
        IN /\ \A i \in 1..Len(metadata.rowsets) :
                  /\ metadata.rowsets[i].id >= old.next_rowset_id
                  /\ metadata.rowsets[i].id + Max(1, metadata.rowsets[i].segments_size)
                         <= metadata.next_rowset_id
           /\ \A i \in 1..Len(old.rowsets) :
                  \E j \in 1..Len(metadata.compaction_inputs) :
                      metadata.compaction_inputs[j] = old.rowsets[i]
           /\ metadata.cumulative_point = 0
           /\ kind = "PK" =>
                  /\ Len(metadata.rowsets) = Len(op_writes)
                  /\ \A i \in 1..Len(op_writes) :
                         metadata.rowsets[i].id = op_writes[i].rowset.id + old.next_rowset_id
                  /\ \E i \in 1..Len(calls) : calls[i] = "unload_primary_index"
                  /\ ~env.loaded

\* The primary-key applier replaced rowsets [A, B, C, D] by the snapshot's rowsets 1 and 5
C10_Witness ==
    /\ Replicated /\ kind = "PK" /\ status = OK
    /\ ~log.op_replication.txn_meta.incremental_snapshot
    /\ Len(pre.metadata.rowsets) = 4
    /\ pre.metadata.next_rowset_id = 6
    /\ Len(metadata.rowsets) = 2
    /\ metadata.rowsets[1].id = 7
    /\ metadata.rowsets[2].id = 11
    /\ metadata.next_rowset_id = 12
    /\ pre.metadata.cumulative_point # 0

-----------------------------------------------------------------------------
(* Recover *)

\* The last driver call applied a write or a compaction log to the primary-key applier
PkRecoverStep == kind = "PK" /\ AfterApply /\ (log.has_op_write \/ log.has_op_compaction)

\* The answers of the last driver call that asked for a recover
Signals == {i \in 1..Len(oracle) : oracle[i].flag # "OK"}

\* The first attempt asked for a recover with re-publish, and the retried attempt asked
\* for a recover again
SignalledAgain ==
    \E i, j \in Signals :
        /\ i < j
        /\ oracle[i].flag = "RECOVER_WITH_PUBLISH"
        /\ \E k \in (i + 1)..(j - 1) : oracle[k].call = "recover"

(* C11: within one write or compaction step of the primary-key applier the  *)
(* recover routine runs at most once and the publish function at most      *)
(* twice; when the first attempt asks for RECOVER_WITH_PUBLISH and the      *)
(* retried attempt asks for a recover again, no second recover runs and the *)
(* step returns an error.                                                   *)
C11_RecoverBounded ==
    PkRecoverStep =>
        /\ CountOf(calls, "recover") <= 1
        /\ CountOf(calls, "lock_shard_pk_index_shard") <= 2
        /\ SignalledAgain => status # OK

\* The recover flag on the builder when the first publish_func() of the step returned
FlagAfterFirst ==
    IF Signals = {} THEN pre.builder.recover_flag
    ELSE oracle[CHOOSE i \in Signals : \A j \in Signals : i <= j].flag

\* The status the last collaborator call of the last driver call answered
LastAnswer == IF oracle = <<>> THEN OK ELSE oracle[Len(oracle)].st

RecoverAnswers == {i \in 1..Len(oracle) : oracle[i].call = "recover"}

(* C12: with enable_primary_key_recover on, a write or compaction step      *)
(* whose publish leaves recover_flag = RECOVER runs the recover routine     *)
(* exactly once and does not publish again; if recover succeeds the flag is *)
(* back to OK and the step returns OK whatever the publish returned. With   *)
(* enable_primary_key_recover off the step returns the publish status and   *)
(* recover never runs.                                                      *)
C12_RecoverWithoutPublish ==
    PkRecoverStep =>
        /\ (cfg.enable_primary_key_recover /\ FlagAfterFirst = "RECOVER") =>
               /\ CountOf(calls, "recover") = 1
               /\ CountOf(calls, "lock_shard_pk_index_shard") = 1
               /\ calls[Len(calls)] = "recover"
               /\ (\A k \in RecoverAnswers : oracle[k].st = OK) =>
                      builder.recover_flag = "OK" /\ status = OK
        /\ ~cfg.enable_primary_key_recover =>
               /\ CountOf(calls, "recover") = 0
               /\ CountOf(calls, "lock_shard_pk_index_shard") = 1
               /\ status = LastAnswer
               /\ builder.recover_flag = FlagAfterFirst

\* A publish failed asking for RECOVER, recover succeeded and the step returned OK
C12_Witness ==
    /\ PkRecoverStep
    /\ cfg.enable_primary_key_recover
    /\ \E i \in Signals :
           /\ oracle[i].flag = "RECOVER" /\ oracle[i].st # OK
           /\ oracle[i].call \in {"publish_primary_key_tablet", "publish_primary_compaction"}
    /\ Len(oracle) >= 1 /\ oracle[Len(oracle)] = [call |-> "recover", st |-> OK, flag |-> "OK"]
    /\ CountOf(calls, "recover") = 1
    /\ status = OK
    /\ builder.recover_flag = "OK"

-----------------------------------------------------------------------------
(* Persistence *)

\* The metadata writes of the last driver call that the store accepted
Writes ==
    {i \in 1..Len(oracle) : oracle[i].call \in {"put_metadata", "finalize"} /\ oracle[i].st = OK}

Committed == last = "finish" /\ status = OK

\* The steps of the last apply that wrote a schema-change checkpoint
Checkpoints ==
    {i \in 1..Len(trace) :
        /\ kind = "PK"
        /\ trace[i].op = "op_schema_change"
        /\ trace[i].st = OK
        /\ log.op_schema_change.alter_version + 1 < new_version}

(* C13 as stated: over init, apply*, finish, destroy no metadata version is *)
(* written to the store unless finish() returns OK, and the primary-key     *)
(* applier writes metadata through builder.finalize only.                   *)
C13_NoPersistenceBeforeCommit ==
    /\ (Writes # {} \/ env.store # pre.env.store) => Committed
    /\ kind = "PK" => CountOf(calls, "put_metadata") = 0

(* C13 amended: the store changes only by a write it accepted; finish()     *)
(* returning OK writes exactly the metadata at new_version; the only write  *)
(* outside finish() is the checkpoint of the primary-key schema-change step *)
(* with alter_version + 1 < new_version, a copy of the metadata at          *)
(* alter_version; the non-primary-key applier writes nothing before         *)
(* finish(), and a failed finish() writes nothing.                          *)
C13_PersistenceAtCommitOrCheckpoint ==
    /\ env.store # pre.env.store => Writes # {}
    /\ Cardinality(Writes) <= 1
    /\ Committed =>
           /\ Cardinality(Writes) = 1
           /\ metadata.version = new_version
           /\ env.store = pre.env.store \cup {metadata}
    /\ (Writes # {} /\ ~Committed) =>
           /\ last = "apply"
           /\ Cardinality(Checkpoints) = 1
           /\ \A i \in Checkpoints :
                  trace[i].after.env.store =
                      trace[i].before.env.store
                      \cup {[trace[i].after.metadata EXCEPT
                                !.version = log.op_schema_change.alter_version]}
    /\ (kind = "PK" /\ CountOf(calls, "put_metadata") > 0) =>
           RanOp("op_schema_change") /\ log.op_schema_change.alter_version + 1 < new_version
    /\ (last = "finish" /\ status # OK) => env.store = pre.env.store
    /\ last \in {"init", "destroy"} => env.store = pre.env.store

\* finish() failed after an apply wrote a checkpoint: the store holds the checkpoint and
\* no metadata at new_version
C13_Witness ==
    /\ kind = "PK"
    /\ last = "finish" /\ status # OK
    /\ \E m \in env.store : m.version = 1 /\ m.rowsets # <<>>
    /\ \A m \in env.store : m.version # new_version

-----------------------------------------------------------------------------
(* Schema-change checkpoint *)

\* The steps of the last apply of the primary-key applier that applied a schema change
SchemaChangeSteps == {i \in 1..Len(trace) : kind = "PK" /\ trace[i].op = "op_schema_change"}

\* The copy of the metadata that schema-change step i saves
CheckpointOf(i) ==
    [trace[i].after.metadata EXCEPT !.version = log.op_schema_change.alter_version]

(* C14: a primary-key schema-change step with alter_version + 1 <           *)
(* new_version sets base_version to alter_version and hands the store,      *)
(* before it returns (so before any later op or log), a copy of the         *)
(* metadata at version alter_version that holds the schema-change rowsets;  *)
(* the step returns the store's status. With alter_version + 1 >=           *)
(* new_version nothing is written and base_version is as before. A schema   *)
(* change with alter_version 3, a later log and a successful finish() with  *)
(* new_version 5 leave versions 3 and 5 in the store.                       *)
C14_SchemaChangeCheckpoint ==
    /\ \A i \in SchemaChangeSteps :
           IF log.op_schema_change.alter_version + 1 < new_version
           THEN /\ CountOf(calls, "put_metadata") = 1
                /\ trace[i].after.base_version = log.op_schema_change.alter_version
                /\ trace[i].after.metadata.rowsets = log.op_schema_change.rowsets
                /\ trace[i].after.metadata.version = new_version
                /\ IF trace[i].st = OK
                   THEN trace[i].after.env.store =
                            trace[i].before.env.store \cup {CheckpointOf(i)}
                   ELSE /\ trace[i].after.env.store = trace[i].before.env.store
                        /\ status = trace[i].st /\ i = Len(trace)
           ELSE /\ CountOf(calls, "put_metadata") = 0
                /\ trace[i].st = OK
                /\ trace[i].after.env.store = trace[i].before.env.store
                /\ trace[i].after.base_version = trace[i].before.base_version
    /\ (kind = "PK" /\ Committed /\ new_version = 5 /\ base_version = 3) =>
           /\ \E m \in env.store : m.version = 3
           /\ metadata.version = 5 /\ metadata \in env.store

\* The schema change at alter_version 3 was checkpointed, a write was applied and
\* finish() with new_version 5 succeeded
C14_Witness ==
    /\ kind = "PK" /\ Committed
    /\ new_version = 5 /\ base_version = 3
    /\ {3, 5} \subseteq {m.version : m \in env.store}
    /\ \E m \in env.store :
           m.version = 3 /\ Len(metadata.rowsets) = Len(m.rowsets) + 1 /\ m.rowsets # <<>>

-----------------------------------------------------------------------------
(* Persisted version *)

(* C15: for both appliers, when finish() returns OK the one metadata it     *)
(* wrote has version exactly new_version, and new_version is greater than   *)
(* the applier's base version and than every version the store held before  *)
(* (the version the applier was constructed from among them).               *)
C15_PersistedVersion ==
    Committed =>
        /\ \E m \in env.store :
               /\ env.store \ pre.env.store = {m}
               /\ m = metadata
               /\ m.version = new_version
        /\ new_version > base_version
        /\ pre.env.store # {}
        /\ \A m \in pre.env.store : new_version > m.version

\* The non-primary-key applier, whose metadata carried the base version until finish()
C15_Witness ==
    /\ Committed
    /\ kind = "NONPK"
    /\ pre.metadata.version < new_version
    /\ metadata.rowsets # <<>>
    /\ metadata.version = new_version /\ metadata \in env.store

-----------------------------------------------------------------------------
(* Destruction and finalisation of the primary-key applier *)

PkDestroyed == kind = "PK" /\ last = "destroy"

(* C16: the destructor of the primary-key applier, when an index entry is   *)
(* pinned and finish() has not succeeded, unloads the index, then releases  *)
(* the guard, then removes the entry from the cache; when finish()          *)
(* succeeded it only releases the entry, which stays cached and loaded; in  *)
(* both cases the applier holds no entry afterwards. finish() has succeeded *)
(* exactly when _has_finalized is set.                                      *)
C16_Destruction ==
    /\ (kind = "PK" /\ phase = "finished") => has_finalized
    /\ has_finalized => phase \in {"finished", "destroyed"}
    /\ PkDestroyed =>
           /\ ~index_entry
           /\ (pre.index_entry /\ ~pre.has_finalized) =>
                  /\ calls = <<"unload", "guard.reset", "remove_primary_index_cache">>
                  /\ ~guard
                  /\ ~env.loaded /\ ~env.cached
                  /\ env.pins = pre.env.pins - 1
           /\ (pre.index_entry /\ pre.has_finalized) =>
                  /\ calls = <<"release_primary_index_cache">>
                  /\ env.cached = pre.env.cached /\ env.loaded = pre.env.loaded
                  /\ env.cached
                  /\ env.pins = pre.env.pins - 1
           /\ ~pre.index_entry =>
                  /\ calls = <<"release_primary_index_cache">>
                  /\ env = pre.env
           /\ env.store = pre.env.store
           /\ metadata = pre.metadata

\* An applier that pinned the index and never finalised was destroyed
C16_Witness ==
    /\ PkDestroyed
    /\ pre.index_entry /\ ~pre.has_finalized
    /\ pre.env.cached /\ pre.env.loaded
    /\ ~env.cached /\ ~index_entry

PkFinished == kind = "PK" /\ last = "finish"

(* C17: in finish() of the primary-key applier with an index entry pinned,  *)
(* index.commit is called before builder.finalize, finalize is not called   *)
(* when commit fails, the cache's memory-usage update comes only after a    *)
(* successful commit, and _has_finalized becomes true only if every call    *)
(* made (commit when pinned, finalize) returned OK.                         *)
C17_FinalisationOrdering ==
    PkFinished =>
        /\ ~pre.has_finalized
        /\ IF pre.index_entry
           THEN IF oracle[1].st # OK
                THEN calls = <<"commit">> /\ status = oracle[1].st
                ELSE calls = <<"commit", "update_object_size", "finalize">>
           ELSE calls = <<"finalize">>
        /\ [i \in 1..Len(oracle) |-> oracle[i].call] =
               SelectSeq(calls, LAMBDA c : c # "update_object_size")
        /\ status = LastAnswer
        /\ has_finalized <=> \A i \in 1..Len(oracle) : oracle[i].st = OK
        /\ has_finalized <=> status = OK
        /\ index_entry = pre.index_entry

\* commit succeeded and finalize failed: the applier is not finalised
C17_Witness ==
    /\ PkFinished
    /\ pre.index_entry
    /\ calls = <<"commit", "update_object_size", "finalize">>
    /\ oracle[1].st = OK /\ oracle[2].st # OK
    /\ ~has_finalized

-----------------------------------------------------------------------------
(* Write of the non-primary-key applier *)

\* The steps of the last apply in which the non-primary-key applier applied a write that
\* carries a rowset with rows or with a delete predicate
NonPkRowsetWrites ==
    {i \in 1..Len(trace) :
        /\ kind = "NONPK"
        /\ trace[i].op = "op_write"
        /\ log.op_write.has_rowset
        /\ log.op_write.rowset.num_rows > 0 \/ log.op_write.rowset.has_delete_predicate}

(* C18: a non-primary-key write that has a rowset with num_rows > 0 or a    *)
(* delete predicate appends exactly one rowset at the end of                *)
(* metadata.rowsets, with the id set to the pre-apply next_rowset_id        *)
(* whatever id the op carries, and next_rowset_id grows by                  *)
(* max(1, segments_size); the earlier rowsets, compaction_inputs and        *)
(* cumulative_point are unchanged. On rowsets [{1, 2 segments}, {3, 1       *)
(* segment}] with next_rowset_id 4 a write of one segment gives a third     *)
(* rowset with id 4 and next_rowset_id 5.                                   *)
C18_NonPkWrite ==
    \A i \in NonPkRowsetWrites :
        LET b == trace[i].before.metadata
            a == trace[i].after.metadata
        IN /\ trace[i].st = OK
           /\ Len(a.rowsets) = Len(b.rowsets) + 1
           /\ SubSeq(a.rowsets, 1, Len(b.rowsets)) = b.rowsets
           /\ a.rowsets[Len(a.rowsets)] = [log.op_write.rowset EXCEPT !.id = b.next_rowset_id]
           /\ a.next_rowset_id = b.next_rowset_id + Max(1, log.op_write.rowset.segments_size)
           /\ a.compaction_inputs = b.compaction_inputs
           /\ a.cumulative_point = b.cumulative_point
           /\ a = [b EXCEPT !.rowsets = a.rowsets, !.next_rowset_id = a.next_rowset_id]
           /\ (b.rowsets = TwoRowsetMetadata.rowsets /\ b.next_rowset_id = 4
               /\ log.op_write.rowset.segments_size = 1) =>
                  a.rowsets[3].id = 4 /\ a.next_rowset_id = 5

\* The write of one segment that carries id 7, applied to the tablet of two rowsets
C18_Witness ==
    /\ kind = "NONPK" /\ AfterApply /\ status = OK
    /\ log.has_op_write /\ log.op_write = WriteRows
    /\ pre.metadata.rowsets = TwoRowsetMetadata.rowsets /\ pre.metadata.next_rowset_id = 4
    /\ metadata.rowsets =
           <<Rowset(1, 2, 1, FALSE), Rowset(3, 1, 1, FALSE), Rowset(4, 1, 1, FALSE)>>
    /\ metadata.next_rowset_id = 5

-----------------------------------------------------------------------------
(* Shard lock *)

\* How many times the pk-index shard lock is held after the first n collaborator calls
\* of the last driver call
RECURSIVE LockHeld(_)
LockHeld(n) ==
    IF n = 0 THEN 0
    ELSE LockHeld(n - 1)
         + (CASE calls[n] = "lock_shard_pk_index_shard" -> 1
              [] calls[n] = "unlock_shard_pk_index_shard" -> -1
              [] OTHER -> 0)

UnderLock == {"prepare_primary_index", "publish_primary_key_tablet", "publish_primary_compaction"}

\* The last apply was one that the primary-key applier runs write or compaction steps for
PkLockStep ==
    /\ kind = "PK" /\ AfterApply
    /\ \/ RanOp("op_write")
       \/ RanOp("op_compaction")
       \/ /\ RanOp("op_replication")
          /\ log.op_replication.txn_meta.txn_state = "TXN_REPLICATED"
          /\ log.op_replication.txn_meta.snapshot_version = new_version
          /\ log.op_replication.txn_meta.incremental_snapshot
          /\ log.op_replication.op_writes # <<>>

(* C19: the primary-key applier takes the pk-index shard lock at the start  *)
(* of every write and compaction step, the embedded writes of an            *)
(* incremental replication included, never takes it while it holds it, and  *)
(* gives it back on every exit path of the step: the lock is not held when  *)
(* apply() returns, nor between two steps.                                  *)
C19_ShardLock ==
    /\ env.lock = 0
    /\ ~env.relocked
    /\ kind = "PK" =>
           /\ \A n \in 1..Len(calls) :
                  /\ LockHeld(n) \in {0, 1}
                  /\ calls[n] \in UnderLock => LockHeld(n) = 1
                  /\ calls[n] = "lock_shard_pk_index_shard" =>
                         n < Len(calls) /\ LockHeld(n) = 1
                  /\ calls[n] \notin UnderLock
                                    \cup {"lock_shard_pk_index_shard",
                                          "unlock_shard_pk_index_shard"} =>
                         LockHeld(n) = 0
           /\ LockHeld(Len(calls)) = 0
    /\ PkLockStep => CountOf(calls, "lock_shard_pk_index_shard") >= 1
    /\ (PkLockStep /\ OpCount(log) = 1 /\ ~log.has_op_replication) =>
           calls[1] = "lock_shard_pk_index_shard"
    /\ (PkLockStep /\ OpCount(log) = 1 /\ log.has_op_replication /\ status = OK) =>
           CountOf(calls, "lock_shard_pk_index_shard") = Len(log.op_replication.op_writes)

\* A step left through its error path: prepare_primary_index failed under the lock
C19_Witness ==
    /\ PkLockStep
    /\ status # OK
    /\ calls = <<"lock_shard_pk_index_shard", "prepare_primary_index",
                 "unlock_shard_pk_index_shard">>
    /\ env.lock = 0

-----------------------------------------------------------------------------
(* Two appliers *)

\* The two appliers were built from the same base version for the same new version
SameBump == new_version = other.new_version /\ metadata.version = other.metadata.version

(* C20: of two primary-key appliers that run side by side on one tablet,    *)
(* from the same base version to the same new version, neither completes a  *)
(* successful finish() while the other holds a pinned primary-index entry,  *)
(* and they do not both commit.                                             *)
C20_CommitExclusion ==
    (kind = "PK" /\ SameBump) =>
        /\ ~(Committed /\ other.index_entry)
        /\ ~(has_finalized /\ other.has_finalized)

-----------------------------------------------------------------------------
(* Cumulative point after a compaction *)

\* 0-based index, in the rowsets before the last apply, of the first compaction input
FirstIdx ==
    (CHOOSE p \in 1..Len(pre.metadata.rowsets) :
         pre.metadata.rowsets[p].id = log.op_compaction.input_rowsets[1]
         /\ \A q \in 1..(p - 1) :
                pre.metadata.rowsets[q].id # log.op_compaction.input_rowsets[1]) - 1

(* C21: a successful non-primary-key compaction with inputs sets            *)
(* cumulative_point, with size-tiered compaction disabled, to first_idx if  *)
(* first_idx >= cp, else cp - k if cp >= k, else 0, plus 1 when the output  *)
(* rowset has rows (first_idx: index of the first input before the splice,  *)
(* k: number of inputs, cp: cumulative_point before); with size-tiered      *)
(* compaction enabled it sets it to 0. Rowsets [A, B, C, D] with cp = 1,    *)
(* inputs [B, C] and a non-empty output give 2.                             *)
C21_CumulativePoint ==
    (NonPkCompacted /\ status = OK) =>
        LET cp == pre.metadata.cumulative_point
            k == Len(log.op_compaction.input_rowsets)
            plus == IF log.op_compaction.has_output_rowset
                       /\ log.op_compaction.output_rowset.num_rows > 0
                    THEN 1 ELSE 0
        IN /\ cfg.enable_size_tiered_compaction_strategy => metadata.cumulative_point = 0
           /\ ~cfg.enable_size_tiered_compaction_strategy =>
                  metadata.cumulative_point =
                      (IF FirstIdx >= cp THEN FirstIdx
                       ELSE IF cp >= k THEN cp - k
                       ELSE 0) + plus
           /\ (~cfg.enable_size_tiered_compaction_strategy
               /\ Len(pre.metadata.rowsets) = 4 /\ cp = 1 /\ FirstIdx = 1 /\ k = 2
               /\ plus = 1) =>
                  metadata.cumulative_point = 2

\* A base compaction: the first input lies below the cumulative point
C21_Witness ==
    /\ NonPkCompacted /\ status = OK
    /\ ~cfg.enable_size_tiered_compaction_strategy
    /\ FirstIdx < pre.metadata.cumulative_point
    /\ pre.metadata.cumulative_point >= Len(log.op_compaction.input_rowsets)
    /\ metadata.cumulative_point # pre.metadata.cumulative_point
    /\ metadata.cumulative_point > 0

-----------------------------------------------------------------------------
(* Version of the in-progress metadata *)

(* C22 as stated: for both appliers the in-progress metadata's version      *)
(* equals new_version from the end of construction onward; init, apply and  *)
(* finish do not change it.                                                 *)
C22_VersionInvariance == metadata.version = new_version

(* C22 amended: the primary-key applier's metadata has version new_version  *)
(* from construction onward, through init, every apply (the schema-change   *)
(* checkpoint versions a copy) and finish. The non-primary-key applier's    *)
(* metadata keeps the version of the base metadata through init and every   *)
(* apply, and finish() sets it to new_version before it writes.             *)
C22_VersionByKind ==
    /\ kind = "PK" => metadata.version = new_version /\ pre.metadata.version = new_version
    /\ kind = "NONPK" =>
           /\ last # "finish" => metadata.version = pre.metadata.version
           /\ last = "finish" =>
                  metadata.version = new_version /\ pre.metadata.version = base_version
           /\ phase \in {"new", "ready"} => metadata.version = base_version
           /\ metadata.version \in {base_version, new_version}
           /\ base_version < new_version

\* The primary-key applier after a schema change that wrote its checkpoint
C22_Witness ==
    /\ kind = "PK" /\ AfterApply /\ status = OK
    /\ Checkpoints # {}
    /\ metadata.rowsets # <<>>
    /\ metadata.version = new_version
    /\ \E m \in env.store : m.version = base_version /\ m.rowsets = metadata.rowsets

-----------------------------------------------------------------------------
(* Schema change *)

\* The steps of the last apply that applied a schema change
SchemaChanged == {i \in 1..Len(trace) : trace[i].op = "op_schema_change" /\ trace[i].st = OK}

RECURSIVE MaxIdEnd(_, _)
\* max(n, id + max(1, segments_size)) over the rowsets
MaxIdEnd(rowsets, n) ==
    IF rowsets = <<>> THEN n
    ELSE MaxIdEnd(Tail(rowsets),
                  Max(n, Head(rowsets).id + Max(1, Head(rowsets).segments_size)))

(* C23: a schema change, for both appliers, appends every rowset of the op  *)
(* in order with the rowset's own id, and leaves next_rowset_id at the      *)
(* maximum of its value before and of id + max(1, segments_size) over the   *)
(* appended rowsets, whatever the order of the ids: next_rowset_id never    *)
(* decreases and exceeds every appended id.                                 *)
C23_SchemaChangeNextRowsetId ==
    \A i \in SchemaChanged :
        LET b == trace[i].before.metadata
            a == trace[i].after.metadata
        IN /\ a.rowsets = b.rowsets \o log.op_schema_change.rowsets
           /\ a.next_rowset_id = MaxIdEnd(log.op_schema_change.rowsets, b.next_rowset_id)
           /\ a.next_rowset_id >= b.next_rowset_id
           /\ \A j \in 1..Len(log.op_schema_change.rowsets) :
                  log.op_schema_change.rowsets[j].id < a.next_rowset_id

-----------------------------------------------------------------------------
(* Recover inside an incremental replication *)

\* The last apply ran the embedded writes of an incremental replication on the
\* primary-key applier
PkIncremental ==
    /\ kind = "PK"
    /\ Replicated /\ ~BadFraming
    /\ log.op_replication.txn_meta.incremental_snapshot

(* C24: in the primary-key applier every embedded write of an incremental   *)
(* replication goes through the recover-and-retry wrapper: when recover is  *)
(* enabled and an embedded write leaves recover_flag = RECOVER or           *)
(* RECOVER_WITH_PUBLISH, the recover routine runs (and the write is         *)
(* published again for RECOVER_WITH_PUBLISH) before the replication step    *)
(* goes on.                                                                 *)
C24_ReplicationRecovers ==
    (PkIncremental /\ cfg.enable_primary_key_recover /\ pre.builder.recover_flag = "OK") =>
        \A i \in Signals : \E k \in (i + 1)..Len(oracle) : oracle[k].call = "recover"


\* The log of the last apply carries the op field
Carries(op) ==
    CASE op = "op_write" -> log.has_op_write
      [] op = "op_compaction" -> log.has_op_compaction
      [] op = "op_schema_change" -> log.has_op_schema_change
      [] op = "op_alter_metadata" -> log.has_op_alter_metadata
      [] op = "op_replication" -> log.has_op_replication

OpFields == {"op_write", "op_compaction", "op_schema_change", "op_alter_metadata", "op_replication"}

(* C25: for both appliers an apply that returns OK has run every op field   *)
(* the log carries; none is skipped because another one is present.         *)
C25_EveryOpApplied ==
    (AfterApply /\ status = OK) => \A op \in OpFields : Carries(op) => RanOp(op)


\* Collaborator calls of the recover routine of check_and_recover
RecoverCalls == {"release_primary_index_cache", "recover"}

(* C26: in a primary-key write or compaction step the pk-index shard lock   *)
(* is held over the whole recover-and-retry step: it is held when the index *)
(* entry is released and when the recover routine runs, so cache GC cannot  *)
(* interleave with them.                                                    *)
C26_LockOverRecover ==
    (kind = "PK" /\ AfterApply) =>
        \A n \in 1..Len(calls) : calls[n] \in RecoverCalls => LockHeld(n) = 1


\* The last apply ran a well-framed full-snapshot replication on the primary-key applier
PkFullSnapshot ==
    /\ kind = "PK"
    /\ Replicated /\ ~BadFraming
    /\ ~log.op_replication.txn_meta.incremental_snapshot

(* C27: in a primary-key full-snapshot replication every replicated rowset  *)
(* gets the id of its op rowset plus B and every delete vector is appended  *)
(* under its segment id plus B, where B is the one value next_rowset_id had *)
(* before the step; next_rowset_id moves only after all of them have been   *)
(* processed, so a step that fails at a delete vector leaves it at B.       *)
C27_SingleOffset ==
    PkFullSnapshot =>
        LET B == pre.metadata.next_rowset_id
            op == log.op_replication
            rebased == {segment_id + B : segment_id \in op.delvecs}
        IN /\ Len(metadata.rowsets) = Len(op.op_writes)
           /\ \A i \in 1..Len(op.op_writes) :
                  metadata.rowsets[i].id = op.op_writes[i].rowset.id + B
           /\ builder.delvecs \subseteq pre.builder.delvecs \cup rebased
           /\ status = OK => rebased \subseteq builder.delvecs
           /\ status # OK => metadata.next_rowset_id = B

\* Rowsets 1 and 5 of a snapshot and its delete vectors 0 and 1 went in under offset 6, and
\* next_rowset_id moved to 12 afterwards
C27_Witness ==
    /\ PkFullSnapshot /\ status = OK
    /\ pre.metadata.next_rowset_id = 6
    /\ Len(metadata.rowsets) = 2
    /\ metadata.rowsets[1].id = 7
    /\ metadata.rowsets[2].id = 11
    /\ log.op_replication.delvecs = {0, 1}
    /\ pre.builder.delvecs = {}
    /\ builder.delvecs = {6, 7}
    /\ metadata.next_rowset_id = 12


-----------------------------------------------------------------------------
(* Pin balance *)

\* The answers prepare_primary_index gave in the last driver call, in order
Prepares == SelectSeq(oracle, LAMBDA e : e.call = "prepare_primary_index")

GiveBacks == {"release_primary_index_cache", "remove_primary_index_cache"}

\* How many index entries the applier holds after the first n collaborator calls of the
\* last driver call; giving back a null entry gives nothing back
RECURSIVE Held(_)
Held(n) ==
    IF n = 0 THEN (IF pre.index_entry THEN 1 ELSE 0)
    ELSE LET h == Held(n - 1)
         IN CASE calls[n] = "prepare_primary_index" ->
                     IF Prepares[CountOf(SubSeq(calls, 1, n), "prepare_primary_index")].st = OK
                     THEN h + 1 ELSE h
              [] calls[n] \in GiveBacks -> IF h > 0 THEN h - 1 ELSE h
              [] OTHER -> h

(* C28: over any lifecycle of the primary-key applier prepare_primary_index *)
(* is called only while the applier holds no entry, at most one entry is    *)
(* pinned at a time, every entry a successful prepare handed out is given   *)
(* back exactly once (by release_primary_index_cache or by                  *)
(* remove_primary_index_cache), and none is pinned after destruction.       *)
C28_PinBalance ==
    kind = "PK" =>
        /\ env.pins = (IF index_entry THEN 1 ELSE 0)
        /\ \A n \in 1..Len(calls) :
               /\ Held(n) \in {0, 1}
               /\ calls[n] = "prepare_primary_index" => Held(n - 1) = 0
        /\ Held(Len(calls)) = env.pins
        /\ phase = "destroyed" => env.pins = 0

\* A write on an applier that held an entry was recovered and published again: the entry
\* was released and a new one pinned
C28_Witness ==
    /\ kind = "PK" /\ AfterApply
    /\ pre.index_entry /\ pre.env.pins = 1
    /\ CountOf(calls, "release_primary_index_cache") = 1
    /\ CountOf(calls, "prepare_primary_index") = 1
    /\ index_entry /\ env.pins = 1


\* The last apply ran a well-framed full-snapshot replication that returned OK
FullSnapshotDone ==
    /\ Replicated /\ ~BadFraming
    /\ ~log.op_replication.txn_meta.incremental_snapshot
    /\ status = OK

(* C29: after a successful full-snapshot replication, for both appliers,    *)
(* compaction_inputs is exactly the sequence of rowsets the metadata held   *)
(* before the step; what compaction_inputs held before is discarded.        *)
C29_CompactionInputsReplaced ==
    FullSnapshotDone => metadata.compaction_inputs = pre.metadata.rowsets

\* A non-primary-key tablet with four rowsets and a compaction input of its own was replaced
\* by a snapshot
C29_Witness ==
    /\ FullSnapshotDone /\ kind = "NONPK"
    /\ Len(pre.metadata.rowsets) = 4
    /\ pre.metadata.compaction_inputs # <<>>
    /\ \A i \in 1..Len(pre.metadata.compaction_inputs) :
           \A j \in 1..Len(metadata.compaction_inputs) :
               pre.metadata.compaction_inputs[i] # metadata.compaction_inputs[j]
    /\ metadata.rowsets # <<>>


-----------------------------------------------------------------------------
(* Non-primary-key compaction: all or nothing *)

\* The last apply ran a compaction with inputs, alone in its log, on metadata whose
\* cumulative point was within the rowsets
BoundedCompaction ==
    /\ NonPkCompacted /\ OpCount(log) = 1
    /\ 0 <= pre.metadata.cumulative_point
    /\ pre.metadata.cumulative_point <= Len(pre.metadata.rowsets)

(* C30: when 0 <= cumulative_point <= rowsets_size holds before it, a       *)
(* non-primary-key compaction that fails leaves rowsets, compaction_inputs, *)
(* next_rowset_id and cumulative_point unchanged: the error placed after    *)
(* the splice of the rowsets cannot be returned.                            *)
C30_CompactionAllOrNothing ==
    (BoundedCompaction /\ status # OK) =>
        /\ metadata.rowsets = pre.metadata.rowsets
        /\ metadata.compaction_inputs = pre.metadata.compaction_inputs
        /\ metadata.next_rowset_id = pre.metadata.next_rowset_id
        /\ metadata.cumulative_point = pre.metadata.cumulative_point

\* A compaction of two rowsets that are not next to each other failed on the tablet of four
\* rowsets, without size tiering
C30_Witness ==
    /\ BoundedCompaction /\ status = "InternalError"
    /\ ~cfg.enable_size_tiered_compaction_strategy
    /\ Len(pre.metadata.rowsets) = 4
    /\ Len(log.op_compaction.input_rowsets) = 2
    /\ \E i \in 1..4 : pre.metadata.rowsets[i].id = log.op_compaction.input_rowsets[1]
    /\ metadata = pre.metadata


-----------------------------------------------------------------------------
(* Full snapshot on a pinned index *)

(* C31: a full-snapshot replication of the primary-key applier asks for the *)
(* unload of the tablet's primary index but gives no entry back: an entry   *)
(* that an earlier step of the applier pinned is still held, with its pin   *)
(* and guard, after the step, and a finish() that follows calls             *)
(* index.commit on that entry although the index was unloaded.              *)
C31_UnloadKeepsPin ==
    /\ (PkFullSnapshot /\ status = OK /\ pre.index_entry) =>
           /\ CountOf(calls, "unload_primary_index") = 1
           /\ \A n \in 1..Len(calls) : calls[n] \notin GiveBacks
           /\ index_entry
           /\ guard = pre.guard
           /\ env.pins = pre.env.pins
           /\ ~env.loaded
    /\ (PkFinished /\ pre.index_entry) =>
           /\ calls[1] = "commit"
           /\ oracle[1].call = "commit"
           /\ env.loaded = pre.env.loaded

\* finish() committed and finalised on an entry whose index a full snapshot had unloaded
C31_Witness ==
    /\ PkFinished /\ status = OK
    /\ pre.index_entry /\ pre.env.pins = 1
    /\ ~pre.env.loaded
    /\ calls = <<"commit", "update_object_size", "finalize">>
    /\ metadata.compaction_inputs # <<>>
    /\ metadata.cumulative_point = 0

=============================================================================
